---- MODULE Spec2Model ----
(***************************************************************************)
(* JazzyIndex benchmark tooling: the name parser and aggregator of         *)
(* scripts/plot_benchmarks.py and the comparator of                        *)
(* scripts/compare_parallel_results.py.                                    *)
(*                                                                         *)
(* Strings are sequences of one-character strings, so that split,          *)
(* startswith and int() are modelled by what they do on the characters.    *)
(* Floating-point times are modelled by exact rationals: the inputs are    *)
(* small whole numbers and a degradation percentage is the pair            *)
(* <<numerator, denominator>> in lowest terms (IEEE rounding is monotone,  *)
(* so sign and order of the rounded values are those of the rationals).    *)
(***************************************************************************)
EXTENDS Integers, Sequences, FiniteSets, TLC

VARIABLES
    name,        \* parse_benchmark_name: the argument (a string)
    parsed,      \* parse_benchmark_name: what the call did
    runs,        \* load_benchmark_data: payload["benchmarks"]
    loaded,      \* load_benchmark_data: how the call ended
    grouped,     \* the AggregationTable held by main() of plot_benchmarks.py
    plotted,     \* plot_segment_group: the (sizes, times) handed to ax.plot
    baseline,    \* compare_timings: first argument, in dict order
    parallel,    \* compare_timings: second argument
    report,      \* compare_timings: how the call ended, what it printed
    verdict,     \* main() of compare_parallel_results.py: the summary line
    file,        \* load_benchmark_results: the file at json_path
    document,    \* load_benchmark_results: how the call ended, what it returned
    timings,     \* extract_timings: how the call ended, what it returned
    reparsed,    \* parse_benchmark_name on the re-encoded key
    scenarios,   \* plot_segment_group: the scenario names of one distribution
    ordered,     \* plot_segment_group: the order the scenarios are walked in
    directory,   \* load_segment_finder_models: the directory at index_data_dir
    models,      \* load_segment_finder_models: how the call ended, what it returned
    cache,       \* download_sosd_dataset.py: the files under CACHE_DIR
    calls,       \* prepare_dataset: the calls made so far
    result       \* prepare_dataset: what the last call did and returned

sortVars == <<scenarios, ordered>>
modelVars == <<directory, models>>
datasetVars == <<cache, calls, result>>

vars == <<name, parsed, runs, loaded, grouped, plotted, baseline, parallel, report,
          verdict, file, document, timings, reparsed, sortVars, modelVars, datasetVars>>

----------------------------------------------------------------------------
(* Bounds of the model *)

\* longest free-form name, in "/"-separated parts
MaxParts == 3
\* longest record list given to load_benchmark_data
MaxRuns == 3
\* largest baseline map given to compare_timings
MaxEntries == 2

----------------------------------------------------------------------------
(* String literals of the source *)

S_JazzyIndex == <<"J","a","z","z","y","I","n","d","e","x">>
S_LowerBound == <<"L","o","w","e","r","B","o","u","n","d">>
S_BM_JazzyIndex_ == <<"B","M","_","J","a","z","z","y","I","n","d","e","x","_">>
S_BM_Std_ == <<"B","M","_","S","t","d","_">>
S_Std == <<"S","t","d">>
S_threads == <<"t","h","r","e","a","d","s",":">>
S_S == <<"S">>
S_N == <<"N">>

\* strings the inputs are built from
S_EqualRange == <<"E","q","u","a","l","R","a","n","g","e">>
S_UpperBound == <<"U","p","p","e","r","B","o","u","n","d">>
S_Uniform == <<"U","n","i","f","o","r","m">>
S_Zipf == <<"Z","i","p","f">>
S_Found == <<"F","o","u","n","d">>
S_NotFound == <<"N","o","t","F","o","u","n","d">>
S_Warmup == <<"W","a","r","m","u","p">>
S_Empty == <<>>

----------------------------------------------------------------------------
(* Python's str and int operations *)

\* str.startswith
StartsWith(s, p) == Len(s) >= Len(p) /\ SubSeq(s, 1, Len(p)) = p

RECURSIVE SplitAcc(_, _, _, _, _)
SplitAcc(s, c, i, acc, cur) ==
    IF i > Len(s) THEN Append(acc, cur)
    ELSE IF s[i] = c THEN SplitAcc(s, c, i + 1, Append(acc, cur), <<>>)
    ELSE SplitAcc(s, c, i + 1, acc, Append(cur, s[i]))

\* str.split(c) for a one-character separator: never the empty list
Split(s, c) == SplitAcc(s, c, 1, <<>>, <<>>)

RECURSIVE Join(_, _)
\* c.join(parts)
Join(parts, c) ==
    IF Len(parts) = 0 THEN <<>>
    ELSE IF Len(parts) = 1 THEN parts[1]
    ELSE parts[1] \o <<c>> \o Join(Tail(parts), c)

DigitChars == <<"0","1","2","3","4","5","6","7","8","9">>
IsDigit(c) == \E d \in 1..10 : DigitChars[d] = c
DigitVal(c) == (CHOOSE d \in 1..10 : DigitChars[d] = c) - 1

RECURSIVE LStrip(_)
LStrip(s) == IF Len(s) > 0 /\ s[1] = " " THEN LStrip(Tail(s)) ELSE s
RECURSIVE RStrip(_)
RStrip(s) == IF Len(s) > 0 /\ s[Len(s)] = " " THEN RStrip(SubSeq(s, 1, Len(s) - 1)) ELSE s

\* digit ("_"? digit)* : the body of a Python integer literal
IntBodyOk(s) ==
    /\ Len(s) > 0
    /\ \A i \in 1..Len(s) :
          \/ IsDigit(s[i])
          \/ s[i] = "_" /\ i > 1 /\ i < Len(s) /\ IsDigit(s[i - 1]) /\ IsDigit(s[i + 1])

RECURSIVE IntBodyVal(_, _)
IntBodyVal(s, acc) ==
    IF Len(s) = 0 THEN acc
    ELSE IF s[1] = "_" THEN IntBodyVal(Tail(s), acc)
    ELSE IntBodyVal(Tail(s), 10 * acc + DigitVal(s[1]))

\* int(s): surrounding blanks, an optional sign, digits with single "_" between
\* them; anything else raises ValueError (ok = FALSE)
PyInt(s) ==
    LET t == RStrip(LStrip(s))
        signed == Len(t) > 0 /\ t[1] \in {"-", "+"}
        body == IF signed THEN Tail(t) ELSE t
    IN IF ~IntBodyOk(body) THEN [ok |-> FALSE, val |-> 0]
       ELSE [ok |-> TRUE,
             val |-> IF signed /\ t[1] = "-" THEN 0 - IntBodyVal(body, 0)
                     ELSE IntBodyVal(body, 0)]

RECURSIVE PyStr(_)
\* str(n) of a non-negative int, as the benchmark writes sizes and segments
PyStr(n) ==
    IF n < 10 THEN <<DigitChars[n + 1]>>
    ELSE PyStr(n \div 10) \o <<DigitChars[(n % 10) + 1]>>

----------------------------------------------------------------------------
(* plot_benchmarks.py: parse_benchmark_name *)

\* the fourth field of a BenchmarkKey and the second of an impl_key:
\* an int, None, or the string "baseline"
IntOf(n) == [kind |-> "int", int |-> n]
None == [kind |-> "None", int |-> 0]
BaselineTag == [kind |-> "baseline", int |-> 0]

Returned(key) == [status |-> "returned", key |-> key]
ValueError == [status |-> "ValueError", key |-> <<>>]
IndexError == [status |-> "IndexError", key |-> <<>>]
NotCalled == [status |-> "none", key |-> <<>>]

\* the suffix never dropped
M_StripThreads(parts) == parts

\* parts after the optional trailing threads:N segment is dropped
StripThreads(parts) ==
    IF Len(parts) > 0 /\ StartsWith(parts[Len(parts)], S_threads)
    THEN SubSeq(parts, 1, Len(parts) - 1)
    ELSE parts

\* a slip in the unpacking: segments and size taken from each other's part
M_ParseJazzyIndex(parts) ==
    IF Len(parts) # 5 THEN ValueError
    ELSE LET segments == PyInt(Tail(parts[4]))
             size == PyInt(Tail(parts[3]))
         IN IF ~StartsWith(parts[3], S_S) \/ ~StartsWith(parts[4], S_N)
            THEN ValueError
            ELSE IF ~segments.ok \/ ~size.ok THEN ValueError
            ELSE Returned(<<S_JazzyIndex, parts[2], parts[5],
                            IntOf(segments.val), size.val>>)

ParseJazzyIndex(parts) ==
    IF Len(parts) # 5 THEN ValueError
    ELSE LET distribution == parts[2]
             segments_part == parts[3]
             size_part == parts[4]
             scenario == parts[5]
             segments == PyInt(Tail(segments_part))
             size == PyInt(Tail(size_part))
         IN IF ~StartsWith(segments_part, S_S) \/ ~StartsWith(size_part, S_N)
            THEN ValueError
            ELSE IF ~segments.ok \/ ~size.ok THEN ValueError
            ELSE Returned(<<S_JazzyIndex, distribution, scenario,
                            IntOf(segments.val), size.val>>)

\* a slip in the unpacking: distribution and scenario taken from each other's part
M_ParseLowerBound(parts) ==
    IF Len(parts) # 4 THEN ValueError
    ELSE LET size == PyInt(Tail(parts[3]))
         IN IF ~StartsWith(parts[3], S_N) THEN ValueError
            ELSE IF ~size.ok THEN ValueError
            ELSE Returned(<<S_LowerBound, parts[4], parts[2], None, size.val>>)

ParseLowerBound(parts) ==
    IF Len(parts) # 4 THEN ValueError
    ELSE LET distribution == parts[2]
             size_part == parts[3]
             scenario == parts[4]
             size == PyInt(Tail(size_part))
         IN IF ~StartsWith(size_part, S_N) THEN ValueError
            ELSE IF ~size.ok THEN ValueError
            ELSE Returned(<<S_LowerBound, distribution, scenario, None, size.val>>)

\* the function name returned as the implementation, as for BM_Std_
M_ParseBMJazzyIndex(parts) ==
    LET benchmark_parts == Split(parts[1], "_")
    IN IF Len(benchmark_parts) < 5 THEN ValueError
       ELSE LET segments == PyInt(benchmark_parts[4])
            IN IF ~segments.ok \/ Len(parts) < 3 \/ ~PyInt(parts[3]).ok THEN ValueError
               ELSE Returned(<<S_JazzyIndex \o benchmark_parts[3], benchmark_parts[5],
                               parts[2], IntOf(segments.val), PyInt(parts[3]).val>>)

ParseBMJazzyIndex(parts) ==
    LET benchmark_parts == Split(parts[1], "_")
    IN IF Len(benchmark_parts) < 5 THEN ValueError
       ELSE LET segments == PyInt(benchmark_parts[4])
                distribution == benchmark_parts[5]
            IN IF ~segments.ok THEN ValueError
               ELSE IF Len(parts) < 3 THEN ValueError
               ELSE LET scenario == parts[2]
                        size == PyInt(parts[3])
                    IN IF ~size.ok THEN ValueError
                       ELSE Returned(<<S_JazzyIndex, distribution, scenario,
                                       IntOf(segments.val), size.val>>)

\* an off-by-one index into the "_" parts of the first segment
M_ParseBMStd(parts) ==
    LET function == Split(parts[1], "_")[2]
    IN IF Len(parts) < 4 THEN ValueError
       ELSE IF ~PyInt(parts[4]).ok THEN ValueError
       ELSE Returned(<<S_Std \o function, parts[2], parts[3], None, PyInt(parts[4]).val>>)

ParseBMStd(parts) ==
    LET function == Split(parts[1], "_")[3]
    IN IF Len(parts) < 4 THEN ValueError
       ELSE LET distribution == parts[2]
                scenario == parts[3]
                size == PyInt(parts[4])
            IN IF ~size.ok THEN ValueError
               ELSE Returned(<<S_Std \o function, distribution, scenario, None, size.val>>)

\* the grammar dispatch on parts[0]; parts[0] of an empty list raises IndexError
Dispatch(parts) ==
    IF Len(parts) = 0 THEN IndexError
    ELSE IF parts[1] = S_JazzyIndex THEN ParseJazzyIndex(parts)
    ELSE IF parts[1] = S_LowerBound THEN ParseLowerBound(parts)
    ELSE IF StartsWith(parts[1], S_BM_JazzyIndex_) THEN ParseBMJazzyIndex(parts)
    ELSE IF StartsWith(parts[1], S_BM_Std_) THEN ParseBMStd(parts)
    ELSE ValueError

parse_benchmark_name(nm) == Dispatch(StripThreads(Split(nm, "/")))

----------------------------------------------------------------------------
(* Names given to parse_benchmark_name *)

Dists == {S_Uniform, S_Zipf}
Scenarios == {S_Found, S_NotFound}
Functions == {S_EqualRange, S_LowerBound, S_UpperBound}
Nums == {0, 8, 64, 1000}

\* what may stand where a number is expected: decimal numbers and other text
NumStrs == {PyStr(n) : n \in Nums}
             \cup {<<>>, <<"x">>, <<"-","4">>, <<"+","4">>, <<" ","4">>, <<"1","_","0">>}
SegParts == {S_S \o x : x \in NumStrs} \cup {PyStr(64)}
SizeParts == {S_N \o x : x \in NumStrs} \cup {PyStr(1000)}
ThreadsPart == S_threads \o <<"2">>

\* JazzyIndex/<Dist>/S<s>/N<n>/<Scenario>
LegacyName(D, s, n, Sc) ==
    Join(<<S_JazzyIndex, D, S_S \o PyStr(s), S_N \o PyStr(n), Sc>>, "/")
\* LowerBound/<Dist>/N<n>/<Scenario>
ReferenceName(D, n, Sc) == Join(<<S_LowerBound, D, S_N \o PyStr(n), Sc>>, "/")
\* BM_JazzyIndex_<Func>_<s>_<Dist>/<Scenario>/<n>
NewName(F, s, D, Sc, n) ==
    Join(<<Join(<<<<"B","M">>, S_JazzyIndex, F, PyStr(s), D>>, "_"), Sc, PyStr(n)>>, "/")
\* BM_Std_<Func>/<Dist>/<Scenario>/<n>
StdName(F, D, Sc, n) == Join(<<S_BM_Std_ \o F, D, Sc, PyStr(n)>>, "/")

\* the four grammars with every NumStrs in their numeric places
LegacyShaped ==
    {Join(<<S_JazzyIndex, D, sp, np, Sc>>, "/") :
        D \in Dists, sp \in SegParts, np \in SizeParts, Sc \in Scenarios}
ReferenceShaped ==
    {Join(<<S_LowerBound, D, np, Sc>>, "/") : D \in Dists, np \in SizeParts, Sc \in Scenarios}
NewShaped ==
    {Join(<<Join(<<<<"B","M">>, S_JazzyIndex, F, x, D>>, "_"), Sc, y>>, "/") :
        F \in Functions, x \in NumStrs, D \in Dists, Sc \in Scenarios, y \in NumStrs}
StdShaped ==
    {Join(<<S_BM_Std_ \o F, D, Sc, y>>, "/") :
        F \in Functions, D \in Dists, Sc \in Scenarios, y \in NumStrs}
Shaped == LegacyShaped \cup ReferenceShaped \cup NewShaped \cup StdShaped

\* any parts in any order, up to MaxParts of them
GenericParts ==
    {S_Empty, S_JazzyIndex, S_LowerBound, S_BM_Std_, S_BM_Std_ \o S_EqualRange,
     S_BM_JazzyIndex_ \o S_EqualRange,
     Join(<<<<"B","M">>, S_JazzyIndex, S_EqualRange, PyStr(64), S_Uniform>>, "_"),
     S_Uniform, S_N \o PyStr(1000), S_Found, PyStr(1000), ThreadsPart, S_Warmup}
FreeParts == UNION {[1..k -> GenericParts] : k \in 1..MaxParts}
FreeNames == {Join(p, "/") : p \in FreeParts}

\* names of the two legacy grammars with two threads: segments at the end
TwiceThreaded ==
    {LegacyName(S_Uniform, 8, 64, ThreadsPart) \o <<"/">> \o ThreadsPart,
     ReferenceName(S_Zipf, 64, ThreadsPart) \o <<"/">> \o ThreadsPart}

Names ==
    FreeNames \cup Shaped \cup {nm \o <<"/">> \o ThreadsPart : nm \in Shaped}
              \cup TwiceThreaded

----------------------------------------------------------------------------
(* The parser on its own *)

NoFile == [exists |-> FALSE, content |-> <<>>]
NoDocument == [status |-> "none", doc |-> <<>>]
NoTimings == [status |-> "none", timings |-> <<>>]
NoOrdered == [status |-> "none", scenarios |-> <<>>]
NoDirectory == [exists |-> FALSE, files |-> <<>>]
NoModels == [status |-> "none", models |-> <<>>]
NoCache == {}
NoCalls == [made |-> 0, forced |-> FALSE]
NoResult ==
    [status |-> "none", download |-> "none", path |-> <<>>, dataset |-> <<>>,
     target_size |-> 0, force |-> FALSE, before |-> {}]
NoReport == [status |-> "none", max |-> <<0, 1>>, differences |-> <<>>, printed |-> <<>>]

InitParse ==
    /\ name \in Names
    /\ parsed = NotCalled
    /\ runs = <<>>
    /\ loaded = "none"
    /\ grouped = <<>>
    /\ plotted = <<>>
    /\ baseline = <<>>
    /\ parallel = <<>>
    /\ report = NoReport
    /\ verdict = "none"
    /\ file = NoFile
    /\ document = NoDocument
    /\ timings = NoTimings
    /\ reparsed = NotCalled
    /\ scenarios = <<>>
    /\ ordered = NoOrdered
    /\ directory = NoDirectory
    /\ models = NoModels
    /\ cache = NoCache
    /\ calls = NoCalls
    /\ result = NoResult

ParseBenchmarkName ==
    /\ parsed = NotCalled
    /\ parsed' = parse_benchmark_name(name)
    /\ UNCHANGED <<name, runs, loaded, grouped, plotted, baseline, parallel, report,
                 verdict, file, document, timings,
                 reparsed, sortVars, modelVars, datasetVars>>

\* str(n) of an int
StrInt(n) == IF n < 0 THEN <<"-">> \o PyStr(0 - n) ELSE PyStr(n)

\* the grammar that accepted nm, by the first segment as the dispatch reads it
GrammarOf(nm) ==
    LET first == Split(nm, "/")[1]
    IN IF first = S_JazzyIndex THEN "legacy"
       ELSE IF first = S_LowerBound THEN "reference"
       ELSE IF StartsWith(first, S_BM_JazzyIndex_) THEN "new"
       ELSE "std"

\* a key written as a name of the grammar that nm was accepted by; the new
\* grammar takes the function, which the key does not hold, from nm
Encode(nm, key) ==
    LET g == GrammarOf(nm)
        distribution == key[2]
        scenario == key[3]
        size == StrInt(key[5])
    IN IF g = "legacy"
       THEN Join(<<S_JazzyIndex, distribution, S_S \o StrInt(key[4].int), S_N \o size,
                   scenario>>, "/")
       ELSE IF g = "reference"
       THEN Join(<<S_LowerBound, distribution, S_N \o size, scenario>>, "/")
       ELSE IF g = "new"
       THEN Join(<<Join(<<<<"B", "M">>, S_JazzyIndex, Split(Split(nm, "/")[1], "_")[3],
                          StrInt(key[4].int), distribution>>, "_"),
                   scenario, size>>, "/")
       ELSE Join(<<S_BM_Std_ \o SubSeq(key[1], Len(S_Std) + 1, Len(key[1])),
                   distribution, scenario, size>>, "/")

\* the returned key written back as a name and parsed again
ReparseKey ==
    /\ parsed.status = "returned"
    /\ reparsed = NotCalled
    /\ reparsed' = parse_benchmark_name(Encode(name, parsed.key))
    /\ UNCHANGED <<name, parsed, runs, loaded, grouped, plotted, baseline, parallel, report,
                   verdict, file, document, timings, sortVars, modelVars, datasetVars>>

NextParse == ParseBenchmarkName \/ ReparseKey

SpecParse == InitParse /\ [][NextParse]_vars

----------------------------------------------------------------------------
(* plot_benchmarks.py: load_benchmark_data *)

\* run.get("name") and float(run.get("real_time", 0.0)); a record without a
\* name and one whose name is "" take the same branch (not name)
Run(nm, t) == [name |-> nm, real_time |-> t]

\* every per-function baseline under one key
M_ImplKey(impl, segments) ==
    IF impl = S_LowerBound THEN <<S_LowerBound, BaselineTag>>
    ELSE IF StartsWith(impl, S_Std) THEN <<S_Std, None>>
    ELSE <<S_JazzyIndex, segments>>

\* the key that identifies implementation + segments
ImplKey(impl, segments) ==
    IF impl = S_LowerBound THEN <<S_LowerBound, BaselineTag>>
    ELSE IF StartsWith(impl, S_Std) THEN <<impl, None>>
    ELSE <<S_JazzyIndex, segments>>

\* an append that leaves out a point the series already holds
M_AppendPoint(table, k, point) ==
    IF k \in DOMAIN table
    THEN IF \E j \in 1..Len(table[k]) : table[k][j] = point THEN table
         ELSE [table EXCEPT ![k] = Append(@, point)]
    ELSE table @@ (k :> <<point>>)

\* grouped[distribution][scenario][impl_key].append((size, time_ns)), the nested
\* defaultdicts written as one mapping from <<distribution, scenario, impl_key>>
AppendPoint(table, k, point) ==
    IF k \in DOMAIN table THEN [table EXCEPT ![k] = Append(@, point)]
    ELSE table @@ (k :> <<point>>)

RECURSIVE LoadLoop(_, _, _)
\* the for loop over runs from index i on; only ValueError is caught
LoadLoop(rs, i, table) ==
    IF i > Len(rs) THEN [status |-> "returned", table |-> table]
    ELSE IF rs[i].name = <<>> THEN LoadLoop(rs, i + 1, table)
    ELSE LET p == parse_benchmark_name(rs[i].name)
         IN IF p.status = "ValueError" THEN LoadLoop(rs, i + 1, table)
            ELSE IF p.status # "returned" THEN [status |-> p.status, table |-> <<>>]
            ELSE LET k == <<p.key[2], p.key[3], ImplKey(p.key[1], p.key[4])>>
                 IN LoadLoop(rs, i + 1, AppendPoint(table, k, <<p.key[5], rs[i].real_time>>))

load_benchmark_data(rs) == LoadLoop(rs, 1, <<>>)

----------------------------------------------------------------------------
(* plot_benchmarks.py: plot_segment_group and plot *)

\* SEGMENT_GROUPS, in the order plot() walks them
SEGMENT_GROUPS == <<{1, 2, 4, 8}, {16, 32, 64, 128}, {256, 512}>>

RECURSIVE InsertBySize(_, _)
\* x placed after every element whose size is not larger: the sort is stable
InsertBySize(sorted, x) ==
    IF Len(sorted) = 0 THEN <<x>>
    ELSE IF sorted[Len(sorted)][1] <= x[1] THEN Append(sorted, x)
    ELSE Append(InsertBySize(SubSeq(sorted, 1, Len(sorted) - 1), x), sorted[Len(sorted)])

RECURSIVE SortFrom(_, _, _)
SortFrom(points, i, acc) ==
    IF i > Len(points) THEN acc ELSE SortFrom(points, i + 1, InsertBySize(acc, points[i]))

\* the sort left out
M_SortBySize(points) == points

\* points.sort(key=lambda item: item[0])
SortBySize(points) == SortFrom(points, 1, <<>>)

\* the filters without the test of the segment group
M_IsDrawn(k, segment_list) ==
    LET impl == k[3][1]
        seg_or_baseline == k[3][2]
    IN ~(seg_or_baseline = None /\ ~(StartsWith(impl, S_Std) \/ impl = S_LowerBound))

\* the two filters in front of the sort: a JazzyIndex series outside the group
\* and a None-keyed series that is no baseline are not drawn
IsDrawn(k, segment_list) ==
    LET impl == k[3][1]
        seg_or_baseline == k[3][2]
    IN /\ ~(impl = S_JazzyIndex
            /\ ~(seg_or_baseline.kind = "int" /\ seg_or_baseline.int \in segment_list))
       /\ ~(seg_or_baseline = None /\ ~(StartsWith(impl, S_Std) \/ impl = S_LowerBound))

\* the table after the call: every drawn series sorted in place
SortedInPlace(table, segment_list) ==
    [k \in DOMAIN table |->
        IF IsDrawn(k, segment_list) THEN SortBySize(table[k]) ELSE table[k]]

\* the ax.plot calls of one plot_segment_group: sizes and times per drawn series
Lines(table, segment_list) ==
    [k \in {d \in DOMAIN table : IsDrawn(d, segment_list)} |->
        LET points == SortBySize(table[k])
        IN [sizes |-> [i \in 1..Len(points) |-> points[i][1]],
            times |-> [i \in 1..Len(points) |-> points[i][2]]]]

SEGMENT_ORDER == <<1, 2, 4, 8, 16, 32, 64, 128, 256, 512>>

\* the keys of SEGMENT_COLORS
SEGMENT_COLORS == {1, 2, 4, 8, 16, 32, 64, 128, 256, 512}

\* segments in SEGMENT_ORDER; SEGMENT_ORDER.index raises ValueError otherwise
InSegmentOrder(segments) == \E i \in 1..Len(SEGMENT_ORDER) : SEGMENT_ORDER[i] = segments

\* the series drawn by the first branch, in black
IsBaselineLine(k) == k[3][1] = S_LowerBound \/ StartsWith(k[3][1], S_Std)

\* the segment counts SEGMENT_COLORS.get() gives None for, among the series
\* drawn by the else branch: SEGMENT_ORDER.index is evaluated on each
Indexed(table, segment_list) ==
    {k[3][2].int : k \in {d \in DOMAIN table :
                            /\ IsDrawn(d, segment_list)
                            /\ ~IsBaselineLine(d)
                            /\ d[3][2].int \notin SEGMENT_COLORS}}

----------------------------------------------------------------------------
(* main() of plot_benchmarks.py: load, then plot group by group *)

RunNames ==
    {LegacyName(S_Uniform, 8, 1000, S_Found),
     NewName(S_EqualRange, 8, S_Uniform, S_Found, 64),
     ReferenceName(S_Uniform, 64, S_Found),
     StdName(S_EqualRange, S_Uniform, S_Found, 1000),
     S_Warmup, ThreadsPart, S_Empty}
RunTimes == {5, 7}
Runs == {Run(nm, t) : nm \in RunNames, t \in RunTimes}
RunLists == UNION {[1..k -> Runs] : k \in 0..MaxRuns}

InitLoad ==
    /\ name = <<>>
    /\ parsed = NotCalled
    /\ runs \in RunLists
    /\ loaded = "none"
    /\ grouped = <<>>
    /\ plotted = <<>>
    /\ baseline = <<>>
    /\ parallel = <<>>
    /\ report = NoReport
    /\ verdict = "none"
    /\ file = NoFile
    /\ document = NoDocument
    /\ timings = NoTimings
    /\ reparsed = NotCalled
    /\ scenarios = <<>>
    /\ ordered = NoOrdered
    /\ directory = NoDirectory
    /\ models = NoModels
    /\ cache = NoCache
    /\ calls = NoCalls
    /\ result = NoResult

LoadBenchmarkData ==
    /\ loaded = "none"
    /\ LET r == load_benchmark_data(runs)
       IN /\ loaded' = r.status
          /\ grouped' = r.table
    /\ UNCHANGED <<name, parsed, runs, plotted, baseline, parallel, report,
                 verdict, file, document, timings,
                 reparsed, sortVars, modelVars, datasetVars>>

\* one call of plot_segment_group from plot(); no distributions raises ValueError
\* and ends the run
PlotSegmentGroup ==
    /\ loaded = "returned"
    /\ Len(plotted) < Len(SEGMENT_GROUPS)
    /\ \A i \in 1..Len(plotted) : plotted[i].status = "returned"
    /\ LET segment_list == SEGMENT_GROUPS[Len(plotted) + 1]
           indexed == Indexed(grouped, segment_list)
       IN IF DOMAIN grouped = {}
          THEN /\ plotted' = Append(plotted, [status |-> "ValueError", lines |-> <<>>,
                                              indexed |-> {}])
               /\ UNCHANGED grouped
          ELSE /\ plotted' = Append(plotted,
                                    [status |-> IF \A sg \in indexed : InSegmentOrder(sg)
                                                THEN "returned" ELSE "ValueError",
                                     lines |-> Lines(grouped, segment_list),
                                     indexed |-> indexed])
               /\ grouped' = SortedInPlace(grouped, segment_list)
    /\ UNCHANGED <<name, parsed, runs, loaded, baseline, parallel, report,
                 verdict, file, document, timings,
                 reparsed, sortVars, modelVars, datasetVars>>

NextLoad == LoadBenchmarkData \/ PlotSegmentGroup

SpecLoad == InitLoad /\ [][NextLoad]_vars

----------------------------------------------------------------------------
(* The same run on records of every grammar, function and segment group *)

\* a segment count of each group, one outside SEGMENT_ORDER, and baselines of
\* three functions
KeyRunNames ==
    {LegacyName(S_Uniform, 8, 1000, S_Found),
     NewName(S_EqualRange, 64, S_Uniform, S_Found, 64),
     LegacyName(S_Uniform, 256, 64, S_Found),
     LegacyName(S_Uniform, 1000, 64, S_Found),
     NewName(S_UpperBound, 0, S_Zipf, S_NotFound, 8),
     ReferenceName(S_Uniform, 64, S_Found),
     StdName(S_EqualRange, S_Uniform, S_Found, 1000),
     StdName(S_UpperBound, S_Uniform, S_Found, 1000),
     StdName(S_LowerBound, S_Uniform, S_Found, 64)}
KeyRuns == {Run(nm, 5) : nm \in KeyRunNames}
KeyRunLists == UNION {[1..k -> KeyRuns] : k \in 0..MaxRuns}

InitKeys ==
    /\ name = <<>>
    /\ parsed = NotCalled
    /\ runs \in KeyRunLists
    /\ loaded = "none"
    /\ grouped = <<>>
    /\ plotted = <<>>
    /\ baseline = <<>>
    /\ parallel = <<>>
    /\ report = NoReport
    /\ verdict = "none"
    /\ file = NoFile
    /\ document = NoDocument
    /\ timings = NoTimings
    /\ reparsed = NotCalled
    /\ scenarios = <<>>
    /\ ordered = NoOrdered
    /\ directory = NoDirectory
    /\ models = NoModels
    /\ cache = NoCache
    /\ calls = NoCalls
    /\ result = NoResult

SpecKeys == InitKeys /\ [][NextLoad]_vars

----------------------------------------------------------------------------
(* plot_benchmarks.py: scenario_sort_key and the order scenarios are walked in *)

S_FoundMiddle == <<"F","o","u","n","d","M","i","d","d","l","e">>
S_FoundEnd == <<"F","o","u","n","d","E","n","d">>
S_All == <<"A","l","l">>
S_found == <<"f","o","u","n","d">>
S_FoundX == <<"F","o","u","n","d","X">>

SCENARIO_ORDER == <<S_Found, S_FoundMiddle, S_FoundEnd, S_NotFound>>

\* ord(c) of the characters scenario names are written with
Ord ==
    ("A" :> 65) @@ ("E" :> 69) @@ ("F" :> 70) @@ ("M" :> 77) @@ ("N" :> 78) @@
    ("X" :> 88) @@ ("Z" :> 90) @@ ("d" :> 100) @@ ("e" :> 101) @@ ("f" :> 102)
    @@ ("i" :> 105) @@ ("l" :> 108) @@ ("n" :> 110) @@ ("o" :> 111) @@ ("p" :>
    112) @@ ("t" :> 116) @@ ("u" :> 117)

RECURSIVE StrLess(_, _)
\* a < b on str: by code point, a proper prefix first
StrLess(a, b) ==
    IF Len(b) = 0 THEN FALSE
    ELSE IF Len(a) = 0 THEN TRUE
    ELSE IF a[1] # b[1] THEN Ord[a[1]] < Ord[b[1]]
    ELSE StrLess(Tail(a), Tail(b))

\* a key with every unknown scenario at the front
M_scenario_sort_key(scenario) ==
    IF \E i \in 1..Len(SCENARIO_ORDER) : SCENARIO_ORDER[i] = scenario
    THEN <<(CHOOSE i \in 1..Len(SCENARIO_ORDER) : SCENARIO_ORDER[i] = scenario) - 1, scenario>>
    ELSE <<0, scenario>>

\* (SCENARIO_ORDER.index(scenario), scenario), and (len(SCENARIO_ORDER),
\* scenario) when index raises ValueError
scenario_sort_key(scenario) ==
    IF \E i \in 1..Len(SCENARIO_ORDER) : SCENARIO_ORDER[i] = scenario
    THEN <<(CHOOSE i \in 1..Len(SCENARIO_ORDER) : SCENARIO_ORDER[i] = scenario) - 1, scenario>>
    ELSE <<Len(SCENARIO_ORDER), scenario>>

\* k1 < k2 on (int, str) tuples
KeyLess(k1, k2) == k1[1] < k2[1] \/ (k1[1] = k2[1] /\ StrLess(k1[2], k2[2]))

RECURSIVE InsertByKey(_, _)
\* x placed after every element whose key is not larger: sorted() is stable
InsertByKey(sorted, x) ==
    IF Len(sorted) = 0 THEN <<x>>
    ELSE IF ~KeyLess(scenario_sort_key(x), scenario_sort_key(sorted[Len(sorted)]))
    THEN Append(sorted, x)
    ELSE Append(InsertByKey(SubSeq(sorted, 1, Len(sorted) - 1), x), sorted[Len(sorted)])

RECURSIVE SortByKeyFrom(_, _, _)
SortByKeyFrom(items, i, acc) ==
    IF i > Len(items) THEN acc ELSE SortByKeyFrom(items, i + 1, InsertByKey(acc, items[i]))

\* sorted(scenarios.items(), key=lambda item: scenario_sort_key(item[0]))
SortScenarios(items) == SortByKeyFrom(items, 1, <<>>)

\* longest dict of scenarios of one distribution
MaxScenarios == 3

ScenarioNames ==
    {S_Found, S_FoundMiddle, S_FoundEnd, S_NotFound,
     S_All, S_found, S_FoundX, S_Zipf, S_Empty}

\* the keys of a dict, in insertion order: no name twice
ScenarioLists ==
    {sl \in UNION {[1..n -> ScenarioNames] : n \in 0..MaxScenarios} :
        \A i, j \in 1..Len(sl) : i # j => sl[i] # sl[j]}

InitScenarios ==
    /\ name = <<>>
    /\ parsed = NotCalled
    /\ runs = <<>>
    /\ loaded = "none"
    /\ grouped = <<>>
    /\ plotted = <<>>
    /\ baseline = <<>>
    /\ parallel = <<>>
    /\ report = NoReport
    /\ verdict = "none"
    /\ file = NoFile
    /\ document = NoDocument
    /\ timings = NoTimings
    /\ reparsed = NotCalled
    /\ scenarios \in ScenarioLists
    /\ ordered = NoOrdered
    /\ directory = NoDirectory
    /\ models = NoModels
    /\ cache = NoCache
    /\ calls = NoCalls
    /\ result = NoResult

WalkScenarios ==
    /\ ordered.status = "none"
    /\ ordered' = [status |-> "returned", scenarios |-> SortScenarios(scenarios)]
    /\ UNCHANGED <<name, parsed, runs, loaded, grouped, plotted, baseline, parallel, report,
                   verdict, file, document, timings, reparsed, scenarios, modelVars,
                   datasetVars>>

NextScenarios == WalkScenarios

SpecScenarios == InitScenarios /\ [][NextScenarios]_vars

----------------------------------------------------------------------------
(* compare_parallel_results.py: compare_timings *)

Abs(x) == IF x < 0 THEN 0 - x ELSE x

RECURSIVE GCD(_, _)
GCD(a, b) == IF b = 0 THEN a ELSE GCD(b, a % b)

\* the number n/d (d > 0) in lowest terms
Rat(n, d) == LET g == GCD(Abs(n), d) IN <<n \div g, d \div g>>
RatAbs(q) == <<Abs(q[1]), q[2]>>
RatLeq(p, q) == p[1] * q[2] <= q[1] * p[2]
Zero == Rat(0, 1)

\* a changed sign: baseline minus parallel
M_Degradation(baseline_time, parallel_time) ==
    Rat((baseline_time - parallel_time) * 100, baseline_time)

\* ((parallel_time - baseline_time) / baseline_time) * 100, baseline_time # 0
Degradation(baseline_time, parallel_time) ==
    Rat((parallel_time - baseline_time) * 100, baseline_time)

RECURSIVE M_CompareLoop(_, _, _, _)
\* a name missing from parallel reported as a parallel time of 0
M_CompareLoop(base, par, i, differences) ==
    IF i > Len(base) THEN [status |-> "returned", differences |-> differences]
    ELSE LET nm == base[i][1]
             baseline_time == base[i][2]
             parallel_time == IF nm \in DOMAIN par THEN par[nm] ELSE 0
         IN IF baseline_time = 0
            THEN [status |-> "ZeroDivisionError", differences |-> <<>>]
            ELSE M_CompareLoop(base, par, i + 1,
                    Append(differences, <<nm, Degradation(baseline_time, parallel_time),
                                          baseline_time, parallel_time>>))

RECURSIVE CompareLoop(_, _, _, _)
\* the for loop over baseline.items() from index i on; a division by a zero
\* baseline_time raises ZeroDivisionError out of the function
CompareLoop(base, par, i, differences) ==
    IF i > Len(base) THEN [status |-> "returned", differences |-> differences]
    ELSE LET nm == base[i][1]
             baseline_time == base[i][2]
         IN IF nm \notin DOMAIN par THEN CompareLoop(base, par, i + 1, differences)
            ELSE IF baseline_time = 0
            THEN [status |-> "ZeroDivisionError", differences |-> <<>>]
            ELSE CompareLoop(base, par, i + 1,
                    Append(differences, <<nm, Degradation(baseline_time, par[nm]),
                                          baseline_time, par[nm]>>))

RECURSIVE M_MaxAbs(_, _)
\* the abs() left out
M_MaxAbs(differences, i) ==
    IF i = Len(differences) THEN differences[i][2]
    ELSE LET rest == M_MaxAbs(differences, i + 1)
         IN IF RatLeq(rest, differences[i][2]) THEN differences[i][2] ELSE rest

RECURSIVE MaxAbs(_, _)
\* max(abs(d[1]) for d in differences) from index i on, differences not empty
MaxAbs(differences, i) ==
    IF i = Len(differences) THEN RatAbs(differences[i][2])
    ELSE LET rest == MaxAbs(differences, i + 1)
         IN IF RatLeq(rest, RatAbs(differences[i][2])) THEN RatAbs(differences[i][2]) ELSE rest

RECURSIVE M_InsertByAbsDesc(_, _)
\* reverse=True left out: ascending
M_InsertByAbsDesc(sorted, x) ==
    IF Len(sorted) = 0 THEN <<x>>
    ELSE IF RatLeq(RatAbs(sorted[Len(sorted)][2]), RatAbs(x[2])) THEN Append(sorted, x)
    ELSE Append(M_InsertByAbsDesc(SubSeq(sorted, 1, Len(sorted) - 1), x), sorted[Len(sorted)])

RECURSIVE InsertByAbsDesc(_, _)
\* x placed after every element whose magnitude is not smaller (stable)
InsertByAbsDesc(sorted, x) ==
    IF Len(sorted) = 0 THEN <<x>>
    ELSE IF RatLeq(RatAbs(x[2]), RatAbs(sorted[Len(sorted)][2])) THEN Append(sorted, x)
    ELSE Append(InsertByAbsDesc(SubSeq(sorted, 1, Len(sorted) - 1), x), sorted[Len(sorted)])

RECURSIVE SortByAbsDescFrom(_, _, _)
SortByAbsDescFrom(differences, i, acc) ==
    IF i > Len(differences) THEN acc
    ELSE SortByAbsDescFrom(differences, i + 1, InsertByAbsDesc(acc, differences[i]))

\* sorted(differences, key=lambda x: abs(x[1]), reverse=True)
SortByAbsDesc(differences) == SortByAbsDescFrom(differences, 1, <<>>)

\* the call: what it returns (max, differences as (name, degradation) pairs in
\* baseline order) and the rows it prints
compare_timings(base, par) ==
    LET loop == CompareLoop(base, par, 1, <<>>)
        differences == loop.differences
    IN IF loop.status # "returned"
       THEN [status |-> loop.status, max |-> Zero, differences |-> <<>>, printed |-> <<>>]
       ELSE IF Len(differences) = 0
       THEN [status |-> "returned", max |-> Zero, differences |-> <<>>, printed |-> <<>>]
       ELSE [status |-> "returned",
             max |-> MaxAbs(differences, 1),
             differences |-> [i \in 1..Len(differences) |->
                                 <<differences[i][1], differences[i][2]>>],
             printed |-> SortByAbsDesc(differences)]

CmpNames == {"A", "B", "C"}
CmpTimes == {0, 90, 100, 110}

\* a dict is its items in insertion order: no name twice
Dicts(maxlen) ==
    {d \in UNION {[1..k -> CmpNames \X CmpTimes] : k \in 0..maxlen} :
        \A i, j \in 1..Len(d) : i # j => d[i][1] # d[j][1]}
Mappings == UNION {[S -> CmpTimes] : S \in SUBSET CmpNames}

InitCompare ==
    /\ name = <<>>
    /\ parsed = NotCalled
    /\ runs = <<>>
    /\ loaded = "none"
    /\ grouped = <<>>
    /\ plotted = <<>>
    /\ baseline \in Dicts(MaxEntries)
    /\ parallel \in Mappings
    /\ report = NoReport
    /\ verdict = "none"
    /\ file = NoFile
    /\ document = NoDocument
    /\ timings = NoTimings
    /\ reparsed = NotCalled
    /\ scenarios = <<>>
    /\ ordered = NoOrdered
    /\ directory = NoDirectory
    /\ models = NoModels
    /\ cache = NoCache
    /\ calls = NoCalls
    /\ result = NoResult

CompareTimings ==
    /\ report.status = "none"
    /\ report' = compare_timings(baseline, parallel)
    /\ UNCHANGED <<name, parsed, runs, loaded, grouped, plotted, baseline, parallel,
                 verdict, file, document, timings,
                 reparsed, sortVars, modelVars, datasetVars>>

\* the thresholds of the summary and of the per-row mark
SAFE_BELOW == 5
ACCEPTABLE_BELOW == 10
WARN_ABOVE == 10
RatLess(p, q) == p[1] * q[2] < q[1] * p[2]

\* the if / elif / else over max_deg at the end of main()
Summary(max_deg) ==
    IF RatLess(max_deg, Rat(SAFE_BELOW, 1)) THEN "SAFE"
    ELSE IF RatLess(max_deg, Rat(ACCEPTABLE_BELOW, 1)) THEN "ACCEPTABLE"
    ELSE "NOT RECOMMENDED"

\* the status column of a printed row: abs(deg_pct) > 10
Warned(deg_pct) == RatLess(Rat(WARN_ABOVE, 1), RatAbs(deg_pct))

\* main() after a comparison that returned: the summary line for it
Summarize ==
    /\ report.status = "returned"
    /\ verdict = "none"
    /\ verdict' = Summary(report.max)
    /\ UNCHANGED <<name, parsed, runs, loaded, grouped, plotted, baseline, parallel, report,
                 file, document, timings,
                 reparsed, sortVars, modelVars, datasetVars>>

NextCompare == CompareTimings \/ Summarize

SpecCompare == InitCompare /\ [][NextCompare]_vars

----------------------------------------------------------------------------
(* compare_parallel_results.py: the JSON documents it reads *)

S_benchmarks == <<"b","e","n","c","h","m","a","r","k","s">>
S_name == <<"n","a","m","e">>
S_cpu_time == <<"c","p","u","_","t","i","m","e">>
S_real_time == <<"r","e","a","l","_","t","i","m","e">>
S_run_type == <<"r","u","n","_","t","y","p","e">>
S_aggregate == <<"a","g","g","r","e","g","a","t","e">>
S__mean == <<"_","m","e","a","n">>
S__median == <<"_","m","e","d","i","a","n">>
S__stddev == <<"_","s","t","d","d","e","v">>
S__cv == <<"_","c","v">>

\* strings the documents are built from
S_iteration == <<"i","t","e","r","a","t","i","o","n">>
S_A == <<"A">>
S_B == <<"B">>

\* A decoded JSON value: a number (int), a string, a list or a dict. A dict is
\* its members in insertion order, each key once.
JNum(n) == [t |-> "num", n |-> n, s |-> <<>>, a |-> <<>>, o |-> <<>>]
JStr(x) == [t |-> "str", n |-> 0, s |-> x, a |-> <<>>, o |-> <<>>]
JArr(items) == [t |-> "arr", n |-> 0, s |-> <<>>, a |-> items, o |-> <<>>]
JObj(members) == [t |-> "obj", n |-> 0, s |-> <<>>, a |-> <<>>, o |-> members]
Member(k, v) == [k |-> k, v |-> v]

\* d[k] = v on a dict: a key already there keeps its place
DictSet(members, k, v) ==
    IF \E i \in 1..Len(members) : members[i].k = k
    THEN [i \in 1..Len(members) |-> IF members[i].k = k THEN Member(k, v) ELSE members[i]]
    ELSE Append(members, Member(k, v))
HasKey(members, k) == \E i \in 1..Len(members) : members[i].k = k
Lookup(members, k) == members[CHOOSE i \in 1..Len(members) : members[i].k = k].v

Whitespace == {" ", "\n"}

RECURSIVE SkipWs(_, _)
SkipWs(tx, i) == IF i <= Len(tx) /\ tx[i] \in Whitespace THEN SkipWs(tx, i + 1) ELSE i

\* what a scanner returns: the value and the position after it, or a failure
Scanned(v, i) == [ok |-> TRUE, v |-> v, i |-> i]
ScanError == [ok |-> FALSE, v |-> JNum(0), i |-> 0]

RECURSIVE ScanString(_, _, _)
\* tx[i..] after an opening quote: up to the closing quote; no control character
ScanString(tx, i, acc) ==
    IF i > Len(tx) \/ tx[i] = "\n" THEN ScanError
    ELSE IF tx[i] = "\"" THEN Scanned(JStr(acc), i + 1)
    ELSE ScanString(tx, i + 1, Append(acc, tx[i]))

RECURSIVE ScanDigits(_, _, _)
ScanDigits(tx, i, acc) ==
    IF i <= Len(tx) /\ IsDigit(tx[i]) THEN ScanDigits(tx, i + 1, 10 * acc + DigitVal(tx[i]))
    ELSE Scanned(JNum(acc), i)

\* an integer: 0, or digits that do not begin with 0
ScanNumber(tx, i) ==
    IF tx[i] = "0" THEN Scanned(JNum(0), i + 1) ELSE ScanDigits(tx, i, 0)

RECURSIVE ScanValue(_, _)
RECURSIVE ScanElements(_, _, _)
RECURSIVE ScanMembers(_, _, _)

\* tx[i..] after "[" or after a ",": a value, then "," or "]"
ScanElements(tx, i, acc) ==
    LET e == ScanValue(tx, SkipWs(tx, i))
        j == SkipWs(tx, e.i)
    IN IF ~e.ok \/ j > Len(tx) THEN ScanError
       ELSE IF tx[j] = "]" THEN Scanned(JArr(Append(acc, e.v)), j + 1)
       ELSE IF tx[j] = "," THEN ScanElements(tx, j + 1, Append(acc, e.v))
       ELSE ScanError

\* tx[i..] after "{" or after a ",": "key": value, then "," or "}"
ScanMembers(tx, i, acc) ==
    LET ki == SkipWs(tx, i)
    IN IF ki > Len(tx) \/ tx[ki] # "\"" THEN ScanError
       ELSE LET k == ScanString(tx, ki + 1, <<>>)
                c == SkipWs(tx, k.i)
            IN IF ~k.ok \/ c > Len(tx) \/ tx[c] # ":" THEN ScanError
               ELSE LET e == ScanValue(tx, SkipWs(tx, c + 1))
                        j == SkipWs(tx, e.i)
                    IN IF ~e.ok \/ j > Len(tx) THEN ScanError
                       ELSE IF tx[j] = "}"
                       THEN Scanned(JObj(DictSet(acc, k.v.s, e.v)), j + 1)
                       ELSE IF tx[j] = ","
                       THEN ScanMembers(tx, j + 1, DictSet(acc, k.v.s, e.v))
                       ELSE ScanError

\* one value at tx[i], no whitespace before it
ScanValue(tx, i) ==
    IF i > Len(tx) THEN ScanError
    ELSE IF tx[i] = "\"" THEN ScanString(tx, i + 1, <<>>)
    ELSE IF IsDigit(tx[i]) THEN ScanNumber(tx, i)
    ELSE IF tx[i] = "["
    THEN LET j == SkipWs(tx, i + 1)
         IN IF j <= Len(tx) /\ tx[j] = "]" THEN Scanned(JArr(<<>>), j + 1)
            ELSE ScanElements(tx, j, <<>>)
    ELSE IF tx[i] = "{"
    THEN LET j == SkipWs(tx, i + 1)
         IN IF j <= Len(tx) /\ tx[j] = "}" THEN Scanned(JObj(<<>>), j + 1)
            ELSE ScanMembers(tx, j, <<>>)
    ELSE ScanError

\* json.loads(tx): one value, whitespace around it, nothing after it;
\* ok = FALSE is json.JSONDecodeError
JsonLoads(tx) ==
    LET e == ScanValue(tx, SkipWs(tx, 1))
    IN IF e.ok /\ SkipWs(tx, e.i) = Len(tx) + 1 THEN e ELSE ScanError

RECURSIVE Dumps(_)
RECURSIVE DumpsItems(_)
RECURSIVE DumpsMembers(_)
DumpsItems(items) ==
    IF Len(items) = 0 THEN <<>>
    ELSE IF Len(items) = 1 THEN Dumps(items[1])
    ELSE Dumps(items[1]) \o <<",", " ">> \o DumpsItems(Tail(items))
DumpsMembers(members) ==
    IF Len(members) = 0 THEN <<>>
    ELSE LET m == <<"\"">> \o members[1].k \o <<"\"", ":", " ">> \o Dumps(members[1].v)
         IN IF Len(members) = 1 THEN m ELSE m \o <<",", " ">> \o DumpsMembers(Tail(members))
\* the text of a value as the benchmark tool writes it
Dumps(v) ==
    IF v.t = "num" THEN PyStr(v.n)
    ELSE IF v.t = "str" THEN <<"\"">> \o v.s \o <<"\"">>
    ELSE IF v.t = "arr" THEN <<"[">> \o DumpsItems(v.a) \o <<"]">>
    ELSE <<"{">> \o DumpsMembers(v.o) \o <<"}">>

----------------------------------------------------------------------------
(* compare_parallel_results.py: load_benchmark_results *)

RECURSIVE Strip(_)
\* str.strip()
Strip(s) ==
    IF Len(s) > 0 /\ s[1] \in Whitespace THEN Strip(Tail(s))
    ELSE IF Len(s) > 0 /\ s[Len(s)] \in Whitespace THEN Strip(SubSeq(s, 1, Len(s) - 1))
    ELSE s

\* {'benchmarks': []}
EmptyDocument == JObj(<<Member(S_benchmarks, JArr(<<>>))>>)

Loaded(v) == [status |-> "returned", doc |-> v]
LoadRaised(e) == [status |-> e, doc |-> <<>>]

\* the loader with no except clause
M_DecodeContent(content) ==
    IF content = <<>> THEN Loaded(EmptyDocument)
    ELSE LET r == JsonLoads(content)
         IN IF r.ok THEN Loaded(r.v) ELSE LoadRaised("JSONDecodeError")

\* the body of the with block and the except clause, on the stripped content
DecodeContent(content) ==
    IF content = <<>> THEN Loaded(EmptyDocument)
    ELSE LET r == JsonLoads(content)
         IN IF r.ok THEN Loaded(r.v) ELSE Loaded(EmptyDocument)

\* a loader that takes a missing file for an empty one
M_load_benchmark_results(f) ==
    IF ~f.exists THEN Loaded(EmptyDocument) ELSE DecodeContent(Strip(f.content))

\* open() raises FileNotFoundError, which no clause catches
load_benchmark_results(f) ==
    IF ~f.exists THEN LoadRaised("FileNotFoundError") ELSE DecodeContent(Strip(f.content))

----------------------------------------------------------------------------
(* compare_parallel_results.py: extract_timings *)

\* sub in s, for strings
Contains(s, sub) == \E i \in 1..(Len(s) - Len(sub) + 1) : SubSeq(s, i, i + Len(sub) - 1) = sub

RECURSIVE Replace(_, _, _)
\* s.replace(old, new): every occurrence, left to right
Replace(s, old, new) ==
    IF Len(s) < Len(old) THEN s
    ELSE IF SubSeq(s, 1, Len(old)) = old
    THEN new \o Replace(SubSeq(s, Len(old) + 1, Len(s)), old, new)
    ELSE <<s[1]>> \o Replace(Tail(s), old, new)

\* sub in v, for a string sub: substring of a string, element of a list, key
\* of a dict; a number is not a container
In(sub, v) ==
    IF v.t = "str" THEN IF Contains(v.s, sub) THEN "yes" ELSE "no"
    ELSE IF v.t = "arr" THEN IF \E i \in 1..Len(v.a) : v.a[i] = JStr(sub) THEN "yes" ELSE "no"
    ELSE IF v.t = "obj" THEN IF HasKey(v.o, sub) THEN "yes" ELSE "no"
    ELSE "TypeError"

\* what a for loop takes from v: the items of a list, the characters of a
\* string, the keys of a dict
Items(v) ==
    IF v.t = "arr" THEN v.a
    ELSE IF v.t = "str" THEN [i \in 1..Len(v.s) |-> JStr(<<v.s[i]>>)]
    ELSE [i \in 1..Len(v.o) |-> JStr(v.o[i].k)]

Extracted(t) == [status |-> "returned", timings |-> t]
ExtractRaised(e) == [status |-> e, timings |-> <<>>]

\* the assignment reading real_time where the code reads cpu_time
M_SetTiming(t, key, bench) ==
    IF ~HasKey(bench.o, S_real_time) THEN ExtractRaised("KeyError")
    ELSE IF key.t \in {"arr", "obj"} THEN ExtractRaised("TypeError")
    ELSE Extracted(DictSet(t, key.s, Lookup(bench.o, S_real_time)))

\* timings[key] = bench['cpu_time']: the right-hand side first, then the key,
\* which must be hashable
SetTiming(t, key, bench) ==
    IF ~HasKey(bench.o, S_cpu_time) THEN ExtractRaised("KeyError")
    ELSE IF key.t \in {"arr", "obj"} THEN ExtractRaised("TypeError")
    ELSE Extracted(DictSet(t, key.s, Lookup(bench.o, S_cpu_time)))

\* the loop body with the _mean branch keeping the suffixed name
M_ExtractOne(t, bench) ==
    IF bench.t # "obj" THEN ExtractRaised("TypeError")
    ELSE IF ~HasKey(bench.o, S_name) THEN ExtractRaised("KeyError")
    ELSE LET name_ == Lookup(bench.o, S_name)
             run_type == IF HasKey(bench.o, S_run_type) THEN Lookup(bench.o, S_run_type)
                         ELSE JStr(<<>>)
         IN IF In(S__mean, name_) = "TypeError" THEN ExtractRaised("TypeError")
            ELSE IF In(S__mean, name_) = "yes"
            THEN IF name_.t # "str" THEN ExtractRaised("AttributeError")
                 ELSE SetTiming(t, name_, bench)
            ELSE IF \/ In(S__median, name_) = "yes"
                    \/ In(S__stddev, name_) = "yes"
                    \/ In(S__cv, name_) = "yes"
            THEN Extracted(t)
            ELSE IF In(S_aggregate, run_type) = "TypeError" THEN ExtractRaised("TypeError")
            ELSE IF In(S_aggregate, run_type) = "no" THEN SetTiming(t, name_, bench)
            ELSE Extracted(t)

\* lines 28-39: one pass of the loop body on timings t
ExtractOne(t, bench) ==
    IF bench.t # "obj" THEN ExtractRaised("TypeError")
    ELSE IF ~HasKey(bench.o, S_name) THEN ExtractRaised("KeyError")
    ELSE LET name_ == Lookup(bench.o, S_name)
             run_type == IF HasKey(bench.o, S_run_type) THEN Lookup(bench.o, S_run_type)
                         ELSE JStr(<<>>)
         IN IF In(S__mean, name_) = "TypeError" THEN ExtractRaised("TypeError")
            ELSE IF In(S__mean, name_) = "yes"
            THEN IF name_.t # "str" THEN ExtractRaised("AttributeError")
                 ELSE SetTiming(t, JStr(Replace(name_.s, S__mean, <<>>)), bench)
            ELSE IF \/ In(S__median, name_) = "yes"
                    \/ In(S__stddev, name_) = "yes"
                    \/ In(S__cv, name_) = "yes"
            THEN Extracted(t)
            ELSE IF In(S_aggregate, run_type) = "TypeError" THEN ExtractRaised("TypeError")
            ELSE IF In(S_aggregate, run_type) = "no" THEN SetTiming(t, name_, bench)
            ELSE Extracted(t)

RECURSIVE ExtractLoop(_, _, _)
ExtractLoop(benches, i, t) ==
    IF i > Len(benches) THEN Extracted(t)
    ELSE LET r == ExtractOne(t, benches[i])
         IN IF r.status # "returned" THEN r ELSE ExtractLoop(benches, i + 1, r.timings)

\* timings: the dict in insertion order, its keys the strings themselves
extract_timings(results) ==
    IF results.t # "obj" THEN ExtractRaised("AttributeError")
    ELSE LET benchmarks == IF HasKey(results.o, S_benchmarks)
                           THEN Lookup(results.o, S_benchmarks)
                           ELSE JArr(<<>>)
         IN IF benchmarks.t = "num" THEN ExtractRaised("TypeError")
            ELSE ExtractLoop(Items(benchmarks), 1, <<>>)

----------------------------------------------------------------------------
(* Files given to load_benchmark_results *)

\* longest record list of a written document
MaxRecords == 3
\* longest free-form file content, in characters
MaxText == 3

\* a record as the benchmark tool writes it
Record(name_, run_type, real_time, cpu_time) ==
    JObj(<<Member(S_name, JStr(name_)), Member(S_run_type, JStr(run_type)),
           Member(S_real_time, JNum(real_time)), Member(S_cpu_time, JNum(cpu_time))>>)

\* only the minimum fields
MinimalRecord(name_, real_time) ==
    JObj(<<Member(S_name, JStr(name_)), Member(S_real_time, JNum(real_time))>>)

\* no run_type, as older versions of the tool write it
PlainRecord(name_, real_time, cpu_time) ==
    JObj(<<Member(S_name, JStr(name_)), Member(S_real_time, JNum(real_time)),
           Member(S_cpu_time, JNum(cpu_time))>>)

Records ==
    {Record(S_A \o S__mean, S_aggregate, 6, 5),
     Record(S_A \o S__median, S_aggregate, 4, 3),
     Record(S_A \o S__stddev, S_aggregate, 1, 1),
     Record(S_A \o S__cv, S_aggregate, 0, 0),
     Record(S_A, S_iteration, 8, 7),
     Record(S_B, S_aggregate, 3, 2),
     PlainRecord(S_B, 9, 8),
     MinimalRecord(S_A, 9),
     Record(S_A \o S__cv \o S_B, S_iteration, 4, 3)}

RecordLists == UNION {[1..n -> Records] : n \in 0..MaxRecords}

Document(records) == JObj(<<Member(S_benchmarks, JArr(records))>>)

\* valid JSON that is not a document of records
WrongShapes ==
    {JArr(<<>>), JArr(<<Record(S_A, S_iteration, 8, 7)>>), JStr(S_A), JNum(1), JObj(<<>>),
     JObj(<<Member(S_benchmarks, JNum(1))>>),
     JObj(<<Member(S_benchmarks, JStr(S_A))>>),
     JObj(<<Member(S_benchmarks, JStr(<<>>))>>),
     JObj(<<Member(S_benchmarks, JObj(<<>>))>>),
     Document(<<JNum(1)>>),
     Document(<<JObj(<<Member(S_cpu_time, JNum(5))>>)>>),
     Document(<<JObj(<<Member(S_name, JNum(1)), Member(S_cpu_time, JNum(5))>>)>>),
     Document(<<JObj(<<Member(S_name, JStr(S_A)), Member(S_run_type, JNum(1)),
                       Member(S_cpu_time, JNum(5))>>)>>)}

Written == {Dumps(Document(rs)) : rs \in RecordLists} \cup {Dumps(v) : v \in WrongShapes}

\* a written file with blank lines around it, and one cut short
Padded(tx) == <<"\n">> \o tx \o <<" ", "\n">>
Truncated(tx) == SubSeq(tx, 1, Len(tx) - 1)

TextChars == {"[", "]", "{", "}", "\"", ":", ",", " ", "\n", "0", "1", "x"}
FreeTexts == UNION {[1..n -> TextChars] : n \in 0..MaxText}

Texts ==
    Written \cup {Padded(tx) : tx \in Written} \cup {Truncated(tx) : tx \in Written}
            \cup FreeTexts

Files == {NoFile} \cup {[exists |-> TRUE, content |-> tx] : tx \in Texts}

----------------------------------------------------------------------------
(* main() of compare_parallel_results.py: load a file, then extract *)

InitResults ==
    /\ name = <<>>
    /\ parsed = NotCalled
    /\ runs = <<>>
    /\ loaded = "none"
    /\ grouped = <<>>
    /\ plotted = <<>>
    /\ baseline = <<>>
    /\ parallel = <<>>
    /\ report = NoReport
    /\ verdict = "none"
    /\ file \in Files
    /\ document = NoDocument
    /\ timings = NoTimings
    /\ reparsed = NotCalled
    /\ scenarios = <<>>
    /\ ordered = NoOrdered
    /\ directory = NoDirectory
    /\ models = NoModels
    /\ cache = NoCache
    /\ calls = NoCalls
    /\ result = NoResult

LoadBenchmarkResults ==
    /\ document.status = "none"
    /\ document' = load_benchmark_results(file)
    /\ UNCHANGED <<name, parsed, runs, loaded, grouped, plotted, baseline, parallel, report,
                   verdict, file, timings,
                 reparsed, sortVars, modelVars, datasetVars>>

ExtractTimings ==
    /\ document.status = "returned"
    /\ timings.status = "none"
    /\ timings' = extract_timings(document.doc)
    /\ UNCHANGED <<name, parsed, runs, loaded, grouped, plotted, baseline, parallel, report,
                   verdict, file, document,
                 reparsed, sortVars, modelVars, datasetVars>>

NextResults == LoadBenchmarkResults \/ ExtractTimings

SpecResults == InitResults /\ [][NextResults]_vars

----------------------------------------------------------------------------
(* plot_benchmarks.py: load_segment_finder_models *)

S_index_ == <<"i","n","d","e","x","_">>
S__N == <<"_","N">>
S__S == <<"_","S">>
S_segment_finder == <<"s","e","g","m","e","n","t","_","f","i","n","d","e","r">>
S_model_type == <<"m","o","d","e","l","_","t","y","p","e">>
S_UNKNOWN == <<"U","N","K","N","O","W","N">>
S_LINEAR == <<"L","I","N","E","A","R">>
S_old == <<"o","l","d">>
S_readme == <<"r","e","a","d","m","e">>

\* a file name without its .json matches the pattern index_*_N*_S*.json
GlobMatch(stem) ==
    /\ StartsWith(stem, S_index_)
    /\ \E i \in (Len(S_index_) + 1)..(Len(stem) - 1) :
          /\ SubSeq(stem, i, i + 1) = S__N
          /\ \E j \in (i + 2)..(Len(stem) - 1) : SubSeq(stem, j, j + 1) = S__S

\* the outcome of the try block for one file: an entry, or nothing
Entry(key, value) == [skip |-> FALSE, key |-> key, value |-> value]
Skipped == [skip |-> TRUE, key |-> <<>>, value |-> JNum(0)]

\* lines 215-233: json.load, the split of the stem, int() and the two .get;
\* every exception ends in the except clause and the file is skipped
ReadDescriptor(f) ==
    LET data == JsonLoads(f.content)
        parts == Split(f.stem, "_")
    IN IF ~data.ok THEN Skipped
       ELSE IF Len(parts) < 4 THEN Skipped
       ELSE LET distribution == parts[2]
                n_str == parts[3]
                s_str == parts[4]
            IN IF ~(StartsWith(n_str, S_N) /\ StartsWith(s_str, S_S)) THEN Skipped
               ELSE LET n == PyInt(Tail(n_str))
                        sg == PyInt(Tail(s_str))
                    IN IF ~n.ok \/ ~sg.ok THEN Skipped
                       ELSE IF data.v.t # "obj" THEN Skipped
                       ELSE LET segment_finder ==
                                    IF HasKey(data.v.o, S_segment_finder)
                                    THEN Lookup(data.v.o, S_segment_finder)
                                    ELSE JObj(<<>>)
                            IN IF segment_finder.t # "obj" THEN Skipped
                               ELSE Entry(<<distribution, n.val, sg.val>>,
                                          IF HasKey(segment_finder.o, S_model_type)
                                          THEN Lookup(segment_finder.o, S_model_type)
                                          ELSE JStr(S_UNKNOWN))

RECURSIVE ScanDirectory(_, _, _)
\* the for loop over the files glob yields, in the order it yields them
ScanDirectory(files, i, acc) ==
    IF i > Len(files) THEN acc
    ELSE IF ~GlobMatch(files[i].stem) THEN ScanDirectory(files, i + 1, acc)
    ELSE LET e == ReadDescriptor(files[i])
         IN ScanDirectory(files, i + 1, IF e.skip THEN acc ELSE DictSet(acc, e.key, e.value))

load_segment_finder_models(dir) ==
    IF ~dir.exists THEN [status |-> "returned", models |-> <<>>]
    ELSE [status |-> "returned", models |-> ScanDirectory(dir.files, 1, <<>>)]

----------------------------------------------------------------------------
(* Directories given to load_segment_finder_models *)

\* most files of a directory
MaxFiles == 2

\* index_<Dist>_N<size>_S<segments>
IndexStem(D, n, sg) == S_index_ \o D \o S__N \o PyStr(n) \o S__S \o PyStr(sg)

\* the stems of the expected shape
ShapedStems == {IndexStem(D, n, sg) : D \in Dists, n \in Nums, sg \in Nums}

Stems ==
    {IndexStem(S_Uniform, 1000, 8),
     IndexStem(S_Zipf, 64, 8),
     IndexStem(S_Uniform, 1000, 8) \o <<"_">> \o S_old,
     S_index_ \o S_Uniform \o <<"_">> \o S_old \o S__N \o PyStr(1000) \o S__S \o PyStr(8),
     S_index_ \o S_Uniform \o S__N \o S_old \o S__S \o PyStr(8),
     S_index_ \o S_Uniform \o S__N \o <<"-">> \o PyStr(64) \o S__S \o PyStr(8),
     S_readme}

Descriptors ==
    {JObj(<<Member(S_segment_finder, JObj(<<Member(S_model_type, JStr(S_LINEAR))>>))>>),
     JObj(<<Member(S_segment_finder, JObj(<<>>))>>),
     JObj(<<>>),
     JObj(<<Member(S_segment_finder, JNum(1))>>),
     JArr(<<>>)}

Contents == {Dumps(v) : v \in Descriptors} \cup {<<"{">>}

DirFiles == {[stem |-> st, content |-> tx] : st \in Stems, tx \in Contents}

\* the files as glob yields them: any order, no name twice
FileLists ==
    {fl \in UNION {[1..n -> DirFiles] : n \in 0..MaxFiles} :
        \A i, j \in 1..Len(fl) : i # j => fl[i].stem # fl[j].stem}

Directories == {NoDirectory} \cup {[exists |-> TRUE, files |-> fl] : fl \in FileLists}

InitModels ==
    /\ name = <<>>
    /\ parsed = NotCalled
    /\ runs = <<>>
    /\ loaded = "none"
    /\ grouped = <<>>
    /\ plotted = <<>>
    /\ baseline = <<>>
    /\ parallel = <<>>
    /\ report = NoReport
    /\ verdict = "none"
    /\ file = NoFile
    /\ document = NoDocument
    /\ timings = NoTimings
    /\ reparsed = NotCalled
    /\ scenarios = <<>>
    /\ ordered = NoOrdered
    /\ directory \in Directories
    /\ models = NoModels
    /\ cache = NoCache
    /\ calls = NoCalls
    /\ result = NoResult

LoadSegmentFinderModels ==
    /\ models.status = "none"
    /\ models' = load_segment_finder_models(directory)
    /\ UNCHANGED <<name, parsed, runs, loaded, grouped, plotted, baseline, parallel, report,
                   verdict, file, document, timings, reparsed, sortVars, directory,
                   datasetVars>>

NextModels == LoadSegmentFinderModels

SpecModels == InitModels /\ [][NextModels]_vars

----------------------------------------------------------------------------
(* download_sosd_dataset.py: the cache directory *)

S_books == <<"b","o","o","k","s">>
S_osm == <<"o","s","m">>
S_wiki == <<"w","i","k","i">>
S_fb == <<"f","b">>
S_sosd == <<"s","o","s","d">>
S__raw_bin == <<"_","r","a","w",".","b","i","n">>
S_M_bin == <<"M",".","b","i","n">>

\* num_elements of the four datasets
DATASETS ==
    (S_books :> [num_elements |-> 100000000]) @@
    (S_osm :> [num_elements |-> 800000000]) @@
    (S_wiki :> [num_elements |-> 200000000]) @@
    (S_fb :> [num_elements |-> 200000000])

\* CACHE_DIR is a set of files [path, bytes, partial]; partial marks a file
\* whose writing was cut short by an exception
NewFile(path, bytes, partial) == [path |-> path, bytes |-> bytes, partial |-> partial]

Exists(files, path) == \E f \in files : f.path = path

FileAt(files, path) == CHOOSE f \in files : f.path = path

Unlink(files, path) == {f \in files : f.path # path}

\* open(path, 'wb') and the writes that follow
WriteFile(files, path, bytes, partial) ==
    Unlink(files, path) \cup {NewFile(path, bytes, partial)}

\* what urlopen and the reads do: the connection is refused, it breaks after
\* some bytes, or it ends after some bytes
Refused == [kind |-> "refused", bytes |-> 0]
Broken(b) == [kind |-> "broken", bytes |-> b]
Served(b) == [kind |-> "served", bytes |-> b]

\* download_file that leaves what it wrote when an exception is caught
M_download_file(files, dest_path, response) ==
    IF response.kind = "refused"
    THEN [ok |-> FALSE, files |-> files]
    ELSE IF response.kind = "broken"
    THEN [ok |-> FALSE, files |-> WriteFile(files, dest_path, response.bytes, TRUE)]
    ELSE [ok |-> TRUE, files |-> WriteFile(files, dest_path, response.bytes, FALSE)]

download_file(files, dest_path, response) ==
    IF response.kind = "refused"
    THEN [ok |-> FALSE, files |-> Unlink(files, dest_path)]
    ELSE IF response.kind = "broken"
    THEN [ok |-> FALSE,
          files |-> Unlink(WriteFile(files, dest_path, response.bytes, TRUE), dest_path)]
    ELSE [ok |-> TRUE, files |-> WriteFile(files, dest_path, response.bytes, FALSE)]

\* the number of values load_binary_uint64 returns
load_binary_uint64(files, file_path, max_elements) ==
    LET num_elements == FileAt(files, file_path).bytes \div 8
    IN IF max_elements # 0 /\ num_elements > max_elements THEN max_elements ELSE num_elements

\* the number of values subsample_dataset returns
subsample_dataset(values, target_size) ==
    IF values <= target_size THEN values ELSE target_size

save_binary_uint64(files, values, file_path) == WriteFile(files, file_path, 8 * values, FALSE)

RawFile(dataset_name) == dataset_name \o S__raw_bin

ProcessedFile(dataset_name, target_size) ==
    dataset_name \o <<"_">> \o PyStr(target_size \div 1000000) \o S_M_bin

Prepared(files, status, download, path) ==
    [files |-> files, status |-> status, download |-> download, path |-> path]

prepare_dataset(files, dataset_name, target_size, force, response) ==
    IF dataset_name \notin DOMAIN DATASETS THEN Prepared(files, "None", "none", <<>>)
    ELSE
    LET raw_file == RawFile(dataset_name)
        processed_file == ProcessedFile(dataset_name, target_size)
    IN
    IF Exists(files, processed_file) /\ ~force
    THEN Prepared(files, "returned", "none", processed_file)
    ELSE
    LET downloads == ~Exists(files, raw_file) \/ force
        fetched == IF downloads THEN download_file(files, raw_file, response)
                   ELSE [ok |-> TRUE, files |-> files]
        download == IF downloads THEN response.kind ELSE "cached"
    IN
    IF ~fetched.ok THEN Prepared(fetched.files, "None", download, <<>>)
    ELSE
    LET values == load_binary_uint64(fetched.files, raw_file,
                                     DATASETS[dataset_name].num_elements)
    IN
    IF values = 0 THEN Prepared(fetched.files, "None", download, <<>>)
    ELSE
    LET sampled == IF values > target_size THEN subsample_dataset(values, target_size)
                   ELSE values
    IN Prepared(save_binary_uint64(fetched.files, sampled, processed_file),
                "returned", download, processed_file)

----------------------------------------------------------------------------
(* Calls of prepare_dataset *)

\* most calls of prepare_dataset on one cache directory
MaxCalls == 3

DatasetNames == {S_books, S_wiki, S_sosd}

TargetSizes == {500000, 1000000, 1500000}

\* 0, 1.2 million and 3 million values (and 4 bytes more), and more values
\* than the books dataset is said to hold
ServedBytes == {0, 9600000, 24000004, 1200000000}

BrokenBytes == {0, 9600000}

Responses ==
    {Refused} \cup {Broken(b) : b \in BrokenBytes} \cup {Served(b) : b \in ServedBytes}

InitDataset ==
    /\ name = <<>>
    /\ parsed = NotCalled
    /\ runs = <<>>
    /\ loaded = "none"
    /\ grouped = <<>>
    /\ plotted = <<>>
    /\ baseline = <<>>
    /\ parallel = <<>>
    /\ report = NoReport
    /\ verdict = "none"
    /\ file = NoFile
    /\ document = NoDocument
    /\ timings = NoTimings
    /\ reparsed = NotCalled
    /\ scenarios = <<>>
    /\ ordered = NoOrdered
    /\ directory = NoDirectory
    /\ models = NoModels
    /\ cache = NoCache
    /\ calls = NoCalls
    /\ result = NoResult

PrepareDataset ==
    \E dataset_name \in DatasetNames, target_size \in TargetSizes, force \in BOOLEAN,
       response \in Responses :
        /\ calls.made < MaxCalls
        /\ LET r == prepare_dataset(cache, dataset_name, target_size, force, response)
           IN /\ cache' = r.files
              /\ result' = [status |-> r.status, download |-> r.download, path |-> r.path,
                            dataset |-> dataset_name, target_size |-> target_size,
                            force |-> force, before |-> cache]
        /\ calls' = [made |-> calls.made + 1, forced |-> calls.forced \/ force]
        /\ UNCHANGED <<name, parsed, runs, loaded, grouped, plotted, baseline, parallel,
                       report, verdict, file, document, timings, reparsed, sortVars,
                       modelVars>>

NextDataset == PrepareDataset

SpecDataset == InitDataset /\ [][NextDataset]_vars

----------------------------------------------------------------------------
(* Claims about parse_benchmark_name *)

\* C1: a name JazzyIndex/<Dist>/S<s>/N<n>/<Scenario>, s and n written in
\* decimal, parses to exactly ("JazzyIndex", Dist, Scenario, s, n).
C1_LegacyKey ==
    parsed # NotCalled =>
       \A D \in Dists, Sc \in Scenarios, s \in Nums, n \in Nums :
          name = LegacyName(D, s, n, Sc) =>
             parsed = Returned(<<S_JazzyIndex, D, Sc, IntOf(s), n>>)

C1_Witness ==
    /\ name = LegacyName(S_Zipf, 64, 1000, S_NotFound)
    /\ parsed.status = "returned"

\* C2 as written: a name BM_JazzyIndex_<Func>_<s>_<Dist>/<Scenario>/<n> parses
\* to ("JazzyIndex", Dist, Scenario, s, n) and the same name with another Func
\* parses to something else (Func can be told from the result).
C2_FuncRecoverable ==
    parsed # NotCalled =>
       \A F \in Functions, s \in Nums, D \in Dists, Sc \in Scenarios, n \in Nums :
          name = NewName(F, s, D, Sc, n) =>
             /\ parsed = Returned(<<S_JazzyIndex, D, Sc, IntOf(s), n>>)
             /\ \A F2 \in Functions \ {F} :
                   parse_benchmark_name(NewName(F2, s, D, Sc, n)) # parsed

\* C2 as amended: such a name parses to ("JazzyIndex", Dist, Scenario, s, n);
\* Func is no part of the result, which is the same for every Func.
C2_NewFormatKey ==
    parsed # NotCalled =>
       \A F \in Functions, s \in Nums, D \in Dists, Sc \in Scenarios, n \in Nums :
          name = NewName(F, s, D, Sc, n) =>
             /\ parsed = Returned(<<S_JazzyIndex, D, Sc, IntOf(s), n>>)
             /\ \A F2 \in Functions :
                   parse_benchmark_name(NewName(F2, s, D, Sc, n)) = parsed

C2_Witness ==
    /\ name = NewName(S_UpperBound, 64, S_Uniform, S_Found, 1000)
    /\ parsed.status = "returned"

\* C3: whatever the name, the call returns a key or raises ValueError
\* (MalformedName), nothing else.
C3_OnlyMalformedName == parsed.status \in {"none", "returned", "ValueError"}

\* the name with one more segment, threads:<N>
ThreadSuffixes == {S_threads \o PyStr(n) : n \in {1, 2, 16}}
WithThreads(nm, t) == nm \o <<"/">> \o t
EndsWithThreads(nm) == LET p == Split(nm, "/") IN StartsWith(p[Len(p)], S_threads)

\* C14 as written: every accepted name with /threads:<N> appended is accepted
\* and parses to the same key.
C14_AnyAcceptedName ==
    parsed.status = "returned" =>
       \A t \in ThreadSuffixes : parse_benchmark_name(WithThreads(name, t)) = parsed

\* C14 as amended: the same for every accepted name whose last segment is not
\* itself a threads: segment (only one such segment is dropped).
C14_ThreadsSuffix ==
    (parsed.status = "returned" /\ ~EndsWithThreads(name)) =>
       \A t \in ThreadSuffixes : parse_benchmark_name(WithThreads(name, t)) = parsed

C14_Witness ==
    /\ name = LegacyName(S_Uniform, 8, 1000, S_Found)
    /\ parsed.status = "returned"
    /\ parse_benchmark_name(WithThreads(name, ThreadsPart)).status = "returned"

IsPlainDecimal(x) == Len(x) > 0 /\ \A i \in 1..Len(x) : IsDigit(x[i])

\* C15: no returned key has a negative segments or size, and a legacy name
\* whose S or N field is not a plain run of digits raises ValueError.
C15_NonNegativeFields ==
    /\ parsed.status = "returned" =>
          /\ parsed.key[5] >= 0
          /\ parsed.key[4].kind = "int" => parsed.key[4].int >= 0
    /\ parsed # NotCalled =>
          \A D \in Dists, Sc \in Scenarios, x \in NumStrs, y \in NumStrs :
             (name = Join(<<S_JazzyIndex, D, S_S \o x, S_N \o y, Sc>>, "/")
                /\ ~(IsPlainDecimal(x) /\ IsPlainDecimal(y))) => parsed = ValueError

\* C16: LowerBound/<Dist>/N<n>/<Scenario> parses to ("LowerBound", Dist,
\* Scenario, None, n) and BM_Std_<Function>/<Dist>/<Scenario>/<n> to
\* ("Std" + Function, Dist, Scenario, None, n).
C16_BaselineKeys ==
    parsed # NotCalled =>
       /\ \A D \in Dists, Sc \in Scenarios, n \in Nums :
             name = ReferenceName(D, n, Sc) =>
                parsed = Returned(<<S_LowerBound, D, Sc, None, n>>)
       /\ \A F \in Functions, D \in Dists, Sc \in Scenarios, n \in Nums :
             name = StdName(F, D, Sc, n) =>
                parsed = Returned(<<S_Std \o F, D, Sc, None, n>>)

C16_Witness ==
    /\ name = StdName(S_UpperBound, S_Zipf, S_NotFound, 64)
    /\ parsed.status = "returned"
    /\ parsed.key[4] = None

----------------------------------------------------------------------------
(* Claims about load_benchmark_data and its consumer *)

RECURSIVE TotalPoints(_)
TotalPoints(table) ==
    IF DOMAIN table = {} THEN 0
    ELSE LET k == CHOOSE x \in DOMAIN table : TRUE
         IN Len(table[k]) + TotalPoints([x \in DOMAIN table \ {k} |-> table[x]])

\* the records whose name one of the four grammars accepts
Recognized ==
    {i \in 1..Len(runs) :
        runs[i].name # <<>> /\ parse_benchmark_name(runs[i].name).status = "returned"}

\* C4: load_benchmark_data completes on every record list; records whose name
\* no grammar accepts add no point and every other record adds its point.
C4_LoadCompletes ==
    loaded # "none" =>
       /\ loaded = "returned"
       /\ TotalPoints(grouped) = Cardinality(Recognized)

IsAscending(sizes) == \A i \in 1..(Len(sizes) - 1) : sizes[i] <= sizes[i + 1]
Sizes(points) == [i \in 1..Len(points) |-> points[i][1]]

\* C5 as written: every series of the table load_benchmark_data returned is in
\* ascending order of size.
C5_ReturnedSorted ==
    loaded = "returned" => \A k \in DOMAIN grouped : IsAscending(Sizes(grouped[k]))

\* C5 as amended: every series plot_segment_group draws is in ascending order
\* of size when it is drawn, whole, and is left sorted in the table.
C5_DrawnSorted ==
    \A i \in 1..Len(plotted) :
       plotted[i].status = "returned" =>
          \A k \in DOMAIN plotted[i].lines :
             /\ IsAscending(plotted[i].lines[k].sizes)
             /\ Len(plotted[i].lines[k].sizes) = Len(load_benchmark_data(runs).table[k])
             /\ IsAscending(Sizes(grouped[k]))

\* a series loaded as (1000, 64) and drawn as (64, 1000)
C5_Witness ==
    \E i \in 1..Len(plotted) :
       /\ plotted[i].status = "returned"
       /\ \E k \in DOMAIN plotted[i].lines :
             /\ plotted[i].lines[k].sizes = <<64, 1000>>
             /\ Sizes(load_benchmark_data(runs).table[k]) = <<1000, 64>>

----------------------------------------------------------------------------
(* Claims about compare_timings *)

BaselineNames == {baseline[i][1] : i \in 1..Len(baseline)}
BaselineTime(nm) == baseline[CHOOSE i \in 1..Len(baseline) : baseline[i][1] = nm][2]
Matched == BaselineNames \cap DOMAIN parallel

\* C6: each reported degradation d of a name with baseline time b and
\* treatment time p is (p - b) / b * 100, that is d * b = (p - b) * 100; baseline
\* {A: 100} against {A: 110} gives the one entry (A, 10) and the maximum 10.
C6_DegradationFormula ==
    report.status = "returned" =>
       /\ \A i \in 1..Len(report.differences) :
             LET nm == report.differences[i][1]
                 d == report.differences[i][2]
             IN /\ d[2] > 0
                /\ d[1] * BaselineTime(nm) = (parallel[nm] - BaselineTime(nm)) * 100 * d[2]
       /\ (baseline = <<<<"A", 100>>>> /\ parallel = [x \in {"A"} |-> 110]) =>
             /\ report.differences = << <<"A", <<10, 1>> >> >>
             /\ report.max = <<10, 1>>

C6_Witness ==
    /\ report.status = "returned"
    /\ baseline = <<<<"A", 100>>>>
    /\ parallel = [x \in {"A"} |-> 110]

\* C7: the returned list has exactly one entry for each name that is in both
\* maps and none for any other name; with no common name the result is (0.0, []).
C7_MatchedNamesOnly ==
    report.status = "returned" =>
       /\ {report.differences[i][1] : i \in 1..Len(report.differences)} = Matched
       /\ Len(report.differences) = Cardinality(Matched)
       /\ Matched = {} => (report.max = Zero /\ report.differences = <<>>)

\* one name matched, one only in baseline, one only in the treatment map
C7_Witness ==
    /\ report.status = "returned"
    /\ Len(baseline) = 2
    /\ Cardinality(DOMAIN parallel) = 2
    /\ Len(report.differences) = 1

\* C8: the returned maximum is the largest |d| over the reported entries: not
\* negative, at least every |d|, and equal to some |d| (0 when nothing is
\* reported), whatever the sign of d.
C8_MaxOfAbs ==
    report.status = "returned" =>
       /\ RatLeq(Zero, report.max)
       /\ \A i \in 1..Len(report.differences) :
             RatLeq(RatAbs(report.differences[i][2]), report.max)
       /\ IF Len(report.differences) = 0 THEN report.max = Zero
          ELSE \E i \in 1..Len(report.differences) :
                  report.max = RatAbs(report.differences[i][2])

\* a speed-up that is the maximum, next to a smaller slow-down
C8_Witness ==
    /\ report.status = "returned"
    /\ \E i, j \in 1..Len(report.differences) :
          /\ report.differences[i][2][1] < 0
          /\ report.differences[j][2][1] > 0
          /\ report.max = RatAbs(report.differences[i][2])
          /\ report.max # report.differences[j][2]

IsDescendingByAbs(entries) ==
    \A i \in 1..(Len(entries) - 1) : RatLeq(RatAbs(entries[i + 1][2]), RatAbs(entries[i][2]))

\* C9 as written: the entry list of the report compare_timings returns is in
\* descending order of |degradation|.
C9_ReturnedDescending ==
    report.status = "returned" => IsDescendingByAbs(report.differences)

\* C9 as amended: the rows compare_timings prints are the reported entries in
\* descending order of |degradation|, whatever the order of the baseline map;
\* the returned list is in the order of the baseline map.
C9_PrintedDescending ==
    report.status = "returned" =>
       /\ IsDescendingByAbs(report.printed)
       /\ Len(report.printed) = Len(report.differences)
       /\ \A i \in 1..Len(report.differences) :
             \E j \in 1..Len(report.printed) :
                /\ report.printed[j][1] = report.differences[i][1]
                /\ report.printed[j][2] = report.differences[i][2]
       /\ \A i, j \in 1..Len(report.differences) :
             i < j => \E a, b \in 1..Len(baseline) :
                         /\ a < b
                         /\ baseline[a][1] = report.differences[i][1]
                         /\ baseline[b][1] = report.differences[j][1]

\* the smaller change first in the baseline map, last in the printed rows
C9_Witness ==
    /\ report.status = "returned"
    /\ Len(report.differences) = 2
    /\ ~IsDescendingByAbs(report.differences)
    /\ report.printed[1][1] = report.differences[2][1]

\* C10: compare_timings returns a report for every pair of maps, a matched
\* baseline time of 0 included.
C10_AlwaysReturns == report.status \in {"none", "returned"}

\* C19: the summary is SAFE for a maximum m < 5, ACCEPTABLE for 5 <= m <= 10
\* and NOT RECOMMENDED only for m > 10, so that a run is not recommended only
\* if one of its rows carries the warning mark (|d| > 10).
C19_Thresholds ==
    verdict # "none" =>
       /\ RatLess(report.max, <<5, 1>>) => verdict = "SAFE"
       /\ (RatLeq(<<5, 1>>, report.max) /\ RatLeq(report.max, <<10, 1>>)) =>
             verdict = "ACCEPTABLE"
       /\ RatLess(<<10, 1>>, report.max) => verdict = "NOT RECOMMENDED"
       /\ verdict = "NOT RECOMMENDED" =>
             \E i \in 1..Len(report.printed) : Warned(report.printed[i][2])

----------------------------------------------------------------------------
(* Claims about load_benchmark_results and extract_timings *)

\* the decoded content of the file, when it is JSON
Decoded == JsonLoads(Strip(file.content))

\* C11: load_benchmark_results on an existing file that is empty, blank or
\* not parseable as JSON returns the document with an empty record list and
\* raises nothing.
C11_EmptyOrUnparseable ==
    (file.exists /\ document.status # "none" /\ (Strip(file.content) = <<>> \/ ~Decoded.ok))
       => (document.status = "returned" /\ document.doc = EmptyDocument)

\* a written document that lost its last character
C11_Witness ==
    /\ file.exists
    /\ file.content = Truncated(Dumps(Document(<<Record(S_A \o S__mean, S_aggregate, 6, 5)>>)))
    /\ document.status = "returned"
    /\ document.doc = EmptyDocument

\* valid JSON, but not an object holding a list under "benchmarks"
WrongShape(v) ==
    \/ v.t # "obj"
    \/ ~HasKey(v.o, S_benchmarks)
    \/ Lookup(v.o, S_benchmarks).t # "arr"

\* C12: a file whose content is valid JSON of the wrong shape is recovered:
\* load_benchmark_results followed by extract_timings gives the empty map
\* and raises nothing.
C12_WrongShapeRecovered ==
    (file.exists /\ Decoded.ok /\ WrongShape(Decoded.v) /\ timings.status # "none")
       => (timings.status = "returned" /\ timings.timings = <<>>)

\* C13: load_benchmark_results on a path that does not exist raises, and
\* raises only then, so a missing file is told apart from an empty or
\* corrupt one, for which it returns.
C13_MissingFileRaises ==
    document.status # "none" =>
       /\ ~file.exists => document.status = "FileNotFoundError"
       /\ file.exists => document.status = "returned"

C13_Witness == ~file.exists /\ document.status = "FileNotFoundError"

\* the records of the loaded document
RecordsOf(v) == Lookup(v.o, S_benchmarks).a

\* every record is an object with a string name and, if any, a string run_type
WellNamed(v) ==
    /\ ~WrongShape(v)
    /\ \A i \in 1..Len(RecordsOf(v)) :
          LET r == RecordsOf(v)[i]
          IN /\ r.t = "obj"
             /\ HasKey(r.o, S_name)
             /\ Lookup(r.o, S_name).t = "str"
             /\ HasKey(r.o, S_run_type) => Lookup(r.o, S_run_type).t = "str"

NameOf(r) == Lookup(r.o, S_name).s
IsAggregate(r) == HasKey(r.o, S_run_type) /\ Contains(Lookup(r.o, S_run_type).s, S_aggregate)
Named(v, nm) == {i \in 1..Len(RecordsOf(v)) : NameOf(RecordsOf(v)[i]) = nm}
LastNamed(v, nm) == RecordsOf(v)[CHOOSE i \in Named(v, nm) : \A j \in Named(v, nm) : j <= i]

Identities == {S_A, S_B}
OtherSummaries == {S__median, S__stddev, S__cv}

\* raw records of identity id: named id itself and not marked aggregate
RawOf(v, id) == {i \in Named(v, id) : ~IsAggregate(RecordsOf(v)[i])}

\* C17: when the records of an identity are summary entries, a _mean entry
\* together with _median, _stddev or _cv entries, the map holds exactly one
\* entry for the identity, keyed by the name without the _mean suffix and
\* valued with the _mean record's time, and no entry for the other summaries.
C17_MeanOnly ==
    \A id \in Identities :
       (/\ timings.status = "returned"
        /\ WellNamed(document.doc)
        /\ Named(document.doc, id \o S__mean) # {}
        /\ \E suf \in OtherSummaries : Named(document.doc, id \o suf) # {}
        /\ RawOf(document.doc, id) = {})
       => /\ Cardinality({i \in 1..Len(timings.timings) : timings.timings[i].k = id}) = 1
          /\ Lookup(timings.timings, id)
                = Lookup(LastNamed(document.doc, id \o S__mean).o, S_cpu_time)
          /\ \A i \in 1..Len(timings.timings) :
                /\ timings.timings[i].k # id \o S__mean
                /\ \A suf \in OtherSummaries : timings.timings[i].k # id \o suf

C17_Witness ==
    /\ file.content = Dumps(Document(<<Record(S_A \o S__median, S_aggregate, 4, 3),
                                        Record(S_A \o S__mean, S_aggregate, 6, 5),
                                        Record(S_A \o S__stddev, S_aggregate, 1, 1)>>))
    /\ timings.status = "returned"
    /\ timings.timings = <<Member(S_A, JNum(5))>>

\* C18: when an identity has both a _mean record and a raw record, the time
\* in the map is the _mean record's, whichever of the two comes first.
C18_AggregateWins ==
    \A id \in Identities :
       (/\ timings.status = "returned"
        /\ WellNamed(document.doc)
        /\ Named(document.doc, id \o S__mean) # {}
        /\ RawOf(document.doc, id) # {})
       => Lookup(timings.timings, id)
             = Lookup(LastNamed(document.doc, id \o S__mean).o, S_cpu_time)

\* a record with a name and a real_time and nothing else
IsMinimal(r) ==
    /\ Len(r.o) = 2
    /\ HasKey(r.o, S_name)
    /\ HasKey(r.o, S_real_time)
    /\ Lookup(r.o, S_real_time).t = "num"

\* C20 as stated: a record with only a name and a real_time is accepted by
\* extract_timings and the time recorded for it is its real_time.
C20_MinimalRecordAccepted ==
    (timings.status # "none" /\ WellNamed(document.doc)) =>
       \A i \in 1..Len(RecordsOf(document.doc)) :
          LET r == RecordsOf(document.doc)[i]
          IN (IsMinimal(r) /\ \A j \in Named(document.doc, NameOf(r)) : j <= i)
                => /\ timings.status = "returned"
                   /\ HasKey(timings.timings, NameOf(r))
                   /\ Lookup(timings.timings, NameOf(r)) = Lookup(r.o, S_real_time)

\* the records extract_timings keeps, and the key it keeps them under
IsKept(r) ==
    \/ Contains(NameOf(r), S__mean)
    \/ /\ \A suf \in OtherSummaries : ~Contains(NameOf(r), suf)
       /\ ~IsAggregate(r)
KeyOf(r) == IF Contains(NameOf(r), S__mean) THEN Replace(NameOf(r), S__mean, <<>>) ELSE NameOf(r)

\* C20: extract_timings reads cpu_time. A kept record without a cpu_time, the
\* record with only a name and a real_time among them, makes it raise
\* KeyError; when it returns, the time under a key is the cpu_time of the
\* last record kept under that key.
C20_CpuTimeRecorded ==
    (timings.status # "none" /\ WellNamed(document.doc)) =>
       LET rs == RecordsOf(document.doc)
       IN /\ (\E i \in 1..Len(rs) : IsKept(rs[i]) /\ ~HasKey(rs[i].o, S_cpu_time))
                => timings.status = "KeyError"
          /\ timings.status = "returned" =>
                \A i \in 1..Len(rs) :
                   (/\ IsKept(rs[i])
                    /\ \A j \in 1..Len(rs) :
                          (IsKept(rs[j]) /\ KeyOf(rs[j]) = KeyOf(rs[i])) => j <= i)
                   => Lookup(timings.timings, KeyOf(rs[i])) = Lookup(rs[i].o, S_cpu_time)

\* the minimal record on its own
C20_Witness ==
    /\ file.content = Dumps(Document(<<MinimalRecord(S_A, 9)>>))
    /\ timings.status = "KeyError"

----------------------------------------------------------------------------
(* Claims about the AggregationTable between load and plot *)

\* C21: rendering leaves the AggregationTable as it found it: a call of
\* plot_segment_group changes neither the keys of the table nor the sequence
\* of (size, time) points of any series.
C21_TableReadOnly == [][PlotSegmentGroup => grouped' = grouped]_vars

\* the series a record's point is in: key k holds a point of size n
HasPoint(k, n) ==
    /\ k \in DOMAIN grouped
    /\ \E j \in 1..Len(grouped[k]) : grouped[k][j][1] = n

KeyNums == {0, 8, 64, 256, 1000}

\* names of the four grammars, each with the key and the size its point
\* is to be found under
ReferenceCases ==
    {<<ReferenceName(D, n, Sc), <<D, Sc, <<S_LowerBound, BaselineTag>>>>, n>> :
        D \in Dists, Sc \in Scenarios, n \in KeyNums}
StdCases ==
    UNION {{<<StdName(F, D, Sc, n), <<D, Sc, <<S_Std \o F, None>>>>, n>> :
               D \in Dists, Sc \in Scenarios, n \in KeyNums} : F \in Functions}
LegacyCases ==
    UNION {{<<LegacyName(D, sg, n, Sc), <<D, Sc, <<S_JazzyIndex, IntOf(sg)>>>>, n>> :
               D \in Dists, Sc \in Scenarios, n \in KeyNums} : sg \in KeyNums}
NewCases ==
    UNION {{<<NewName(F, sg, D, Sc, n), <<D, Sc, <<S_JazzyIndex, IntOf(sg)>>>>, n>> :
               D \in Dists, Sc \in Scenarios, n \in KeyNums} :
           F \in Functions, sg \in KeyNums}
KeyCases == ReferenceCases \cup StdCases \cup LegacyCases \cup NewCases

\* C23: the implementation part of the grouping key is ("LowerBound",
\* "baseline") for a legacy reference record, ("Std" + Function, None) for a
\* per-function baseline record, a series per function, and ("JazzyIndex",
\* segments) for a subject record of either grammar.
C23_ImplKeys ==
    loaded = "returned" =>
       /\ \A i \in 1..Len(runs) : \E c \in KeyCases : runs[i].name = c[1]
       /\ \A i \in 1..Len(runs), c \in KeyCases :
             runs[i].name = c[1] => HasPoint(c[2], c[3])
       /\ \A k \in DOMAIN grouped :
             \/ k[3] = <<S_LowerBound, BaselineTag>>
             \/ \E F \in Functions : k[3] = <<S_Std \o F, None>>
             \/ \E sg \in KeyNums : k[3] = <<S_JazzyIndex, IntOf(sg)>>

\* two baseline functions and the legacy reference, side by side
C23_Witness ==
    /\ loaded = "returned"
    /\ <<S_Uniform, S_Found, <<S_Std \o S_EqualRange, None>>>> \in DOMAIN grouped
    /\ <<S_Uniform, S_Found, <<S_Std \o S_UpperBound, None>>>> \in DOMAIN grouped
    /\ <<S_Uniform, S_Found, <<S_LowerBound, BaselineTag>>>> \in DOMAIN grouped

\* the grouping key of a recognized record
KeyOfRun(i) ==
    LET p == parse_benchmark_name(runs[i].name)
    IN <<p.key[2], p.key[3], ImplKey(p.key[1], p.key[4])>>

\* C26: in the table load_benchmark_data returns every series holds one point for each record
\* with a non-empty name that parses to its key, and no series exists without
\* such a record: the points are as many as those records.
C26_Conservation ==
    (loaded = "returned" /\ plotted = <<>>) =>
       LET recognized == Recognized
           keys == [i \in recognized |-> KeyOfRun(i)]
       IN /\ DOMAIN grouped = {keys[i] : i \in recognized}
          /\ \A k \in DOMAIN grouped :
                Len(grouped[k]) = Cardinality({i \in recognized : keys[i] = k})
          /\ TotalPoints(grouped) = Cardinality(recognized)

\* the same record twice and a record no grammar accepts
C26_Witness ==
    /\ loaded = "returned"
    /\ Len(runs) = 3
    /\ runs[1] = runs[2]
    /\ Recognized = {1, 2}
    /\ TotalPoints(grouped) = 2

\* the groups that select series k
SelectedBy(k) == {g \in 1..Len(SEGMENT_GROUPS) : IsDrawn(k, SEGMENT_GROUPS[g])}

\* C30: the segment groups partition SEGMENT_ORDER; a JazzyIndex series is
\* selected by exactly one group if its segment count is in SEGMENT_ORDER and
\* by none otherwise, and SEGMENT_ORDER.index is never evaluated on a segment
\* count that SEGMENT_ORDER lacks.
C30_GroupsPartition ==
    /\ \A i \in 1..Len(SEGMENT_ORDER) :
          Cardinality({g \in 1..Len(SEGMENT_GROUPS) : SEGMENT_ORDER[i] \in SEGMENT_GROUPS[g]}) = 1
    /\ \A g \in 1..Len(SEGMENT_GROUPS) : \A sg \in SEGMENT_GROUPS[g] : InSegmentOrder(sg)
    /\ loaded = "returned" =>
          \A k \in DOMAIN grouped :
             k[3][1] = S_JazzyIndex =>
                Cardinality(SelectedBy(k)) = IF InSegmentOrder(k[3][2].int) THEN 1 ELSE 0
    /\ \A i \in 1..Len(plotted) :
          /\ \A sg \in plotted[i].indexed : InSegmentOrder(sg)
          /\ DOMAIN grouped # {} => plotted[i].status = "returned"

\* all three groups plotted from a table with a series of 8 segments, drawn
\* by the low group, and one of 1000 segments, drawn by none
C30_Witness ==
    /\ Len(plotted) = 3
    /\ \A i \in 1..3 : plotted[i].status = "returned"
    /\ <<S_Uniform, S_Found, <<S_JazzyIndex, IntOf(8)>>>> \in DOMAIN plotted[1].lines
    /\ <<S_Uniform, S_Found, <<S_JazzyIndex, IntOf(1000)>>>> \in DOMAIN grouped
    /\ \A i \in 1..3 :
          <<S_Uniform, S_Found, <<S_JazzyIndex, IntOf(1000)>>>> \notin DOMAIN plotted[i].lines

----------------------------------------------------------------------------
(* Claims about scenario_sort_key *)

IsKnown(sc) == sc \in {S_Found, S_FoundMiddle, S_FoundEnd, S_NotFound}

\* Found, FoundMiddle, FoundEnd, NotFound in this order
KnownBefore(a, b) ==
    \/ a = S_Found /\ b \in {S_FoundMiddle, S_FoundEnd, S_NotFound}
    \/ a = S_FoundMiddle /\ b \in {S_FoundEnd, S_NotFound}
    \/ a = S_FoundEnd /\ b = S_NotFound

\* the order of the claim on two different names
Before(a, b) ==
    IF IsKnown(a) /\ IsKnown(b) THEN KnownBefore(a, b)
    ELSE IF IsKnown(a) THEN TRUE
    ELSE IF IsKnown(b) THEN FALSE
    ELSE StrLess(a, b)

\* C24: scenario_sort_key orders any two different scenario names one way and
\* one way only; the scenarios are walked with the known ones first, in the
\* order Found, FoundMiddle, FoundEnd, NotFound, and the unknown ones after
\* them, in lexical order.
C24_ScenarioOrder ==
    /\ \A a, b \in ScenarioNames :
          a # b => (KeyLess(scenario_sort_key(a), scenario_sort_key(b))
                       # KeyLess(scenario_sort_key(b), scenario_sort_key(a)))
    /\ ordered.status = "returned" =>
          /\ Len(ordered.scenarios) = Len(scenarios)
          /\ \A i \in 1..Len(scenarios) :
                \E j \in 1..Len(ordered.scenarios) : ordered.scenarios[j] = scenarios[i]
          /\ \A i, j \in 1..Len(ordered.scenarios) :
                i < j => Before(ordered.scenarios[i], ordered.scenarios[j])

\* an unknown scenario first in the dict, the known ones in reverse
C24_Witness ==
    /\ scenarios = <<S_All, S_NotFound, S_Found>>
    /\ ordered.status = "returned"
    /\ ordered.scenarios = <<S_Found, S_NotFound, S_All>>

----------------------------------------------------------------------------
(* Claims about the round trip of parse_benchmark_name *)

\* C25 as stated: for every accepted name, the returned key written as a name
\* of the same grammar parses to the identical key.
C25_RoundTrip == reparsed # NotCalled => reparsed = parsed

\* the scenario of the key reads as a threads:N segment
ThreadsScenario == StartsWith(parsed.key[3], S_threads)

\* C25: the round trip gives the identical key for every accepted name of the
\* BM_JazzyIndex_ and BM_Std_ grammars, and for every accepted name of the two
\* legacy grammars whose scenario does not begin with threads:. A legacy key
\* with such a scenario, returned for a name with two threads: segments at its
\* end, is rejected with ValueError when written back.
C25_RoundTripButThreads ==
    reparsed # NotCalled =>
       IF GrammarOf(name) \in {"legacy", "reference"} /\ ThreadsScenario
       THEN reparsed = ValueError
       ELSE reparsed = parsed

\* a name with a sign and blanks in its numbers comes back in plain digits
C25_Witness ==
    /\ GrammarOf(name) = "legacy"
    /\ parsed.status = "returned"
    /\ reparsed = parsed
    /\ Encode(name, parsed.key) # name

----------------------------------------------------------------------------
(* Claims about the records extract_timings drops *)

\* str.endswith
EndsWith(x, suffix) ==
    Len(x) >= Len(suffix) /\ SubSeq(x, Len(x) - Len(suffix) + 1, Len(x)) = suffix

\* C27: extract_timings drops a record only if its name ends in _median,
\* _stddev or _cv, or if it is aggregate-typed without the _mean suffix: a
\* non-aggregate record whose name has none of the four suffixes at its end,
\* whatever it has in the middle, is in the map under its own name.
C27_DropsOnlySummaries ==
    (timings.status = "returned" /\ WellNamed(document.doc)) =>
       \A i \in 1..Len(RecordsOf(document.doc)) :
          LET r == RecordsOf(document.doc)[i]
          IN (/\ ~IsAggregate(r)
              /\ \A suf \in OtherSummaries \cup {S__mean} : ~EndsWith(NameOf(r), suf))
                => HasKey(timings.timings, NameOf(r))

----------------------------------------------------------------------------
(* Claims about load_segment_finder_models *)

\* a descriptor of the expected name whose content is a document with the
\* nested field or without it
WellFormed(f) ==
    /\ f.stem \in ShapedStems
    /\ JsonLoads(f.content).ok
    /\ JsonLoads(f.content).v.t = "obj"
    /\ HasKey(JsonLoads(f.content).v.o, S_segment_finder)
          => Lookup(JsonLoads(f.content).v.o, S_segment_finder).t = "obj"

\* the label of a well-formed descriptor
LabelOf(f) ==
    LET doc == JsonLoads(f.content).v
    IN IF /\ HasKey(doc.o, S_segment_finder)
          /\ HasKey(Lookup(doc.o, S_segment_finder).o, S_model_type)
       THEN Lookup(Lookup(doc.o, S_segment_finder).o, S_model_type)
       ELSE JStr(S_UNKNOWN)

\* the (distribution, N, S) a well-formed descriptor stands for
StemKey(f) ==
    CHOOSE k \in Dists \X Nums \X Nums : f.stem = IndexStem(k[1], k[2], k[3])

\* C22: load_segment_finder_models raises on no directory: a missing one
\* gives the empty mapping; a file that is no parseable document or whose
\* name is not index_<Dist>_N<size>_S<segments> adds nothing, and every
\* well-formed descriptor has its entry, labelled UNKNOWN when
\* segment_finder.model_type is absent.
C22_OnlyWellFormed ==
    models.status # "none" =>
       /\ models.status = "returned"
       /\ ~directory.exists => models.models = <<>>
       /\ \A i \in 1..Len(directory.files) :
             WellFormed(directory.files[i]) =>
                /\ HasKey(models.models, StemKey(directory.files[i]))
                /\ Lookup(models.models, StemKey(directory.files[i]))
                      = LabelOf(directory.files[i])
       /\ \A j \in 1..Len(models.models) :
             \E i \in 1..Len(directory.files) :
                /\ WellFormed(directory.files[i])
                /\ StemKey(directory.files[i]) = models.models[j].k

----------------------------------------------------------------------------
(* Claims about prepare_dataset *)

\* the number of values a file holds
Elements(files, path) == FileAt(files, path).bytes \div 8

IsRaw(f) == \E d \in DOMAIN DATASETS : f.path = RawFile(d)

ProcessedFiles(files) == {f \in files : ~IsRaw(f)}

\* C28: as long as no call was made with force, the file a call with
\* target size t returns holds at most t values.
C28_AtMostTarget ==
    (result.status = "returned" /\ ~calls.forced) =>
        Elements(cache, result.path) <= result.target_size

\* C29: after a call whose download failed no raw file of the dataset is in
\* the cache, the call returned None and the processed files are those of
\* before; no file cut short stays in the cache, so a call takes the cached
\* raw data only when a raw file written to its end was there.
C29_NoPartialRaw ==
    /\ \A f \in cache : ~f.partial
    /\ result.download \in {"refused", "broken"} =>
          /\ result.status = "None"
          /\ ~Exists(cache, RawFile(result.dataset))
          /\ ProcessedFiles(cache) = ProcessedFiles(result.before)
    /\ result.download = "cached" =>
          /\ Exists(result.before, RawFile(result.dataset))
          /\ ~FileAt(result.before, RawFile(result.dataset)).partial

\* a forced download that broke midway removed the raw file of an earlier
\* call and left its processed file
C29_Witness ==
    /\ result.download = "broken"
    /\ Exists(result.before, RawFile(result.dataset))
    /\ ~Exists(cache, RawFile(result.dataset))
    /\ ProcessedFiles(cache) # {}

====
